---------------------------- MODULE Spec2Model ----------------------------
(***************************************************************************)
(* A model of the half-edge connectivity kernel of meshx (package          *)
(* halfedge): construction from a mesh source, face traversal, orientation *)
(* propagation, component flooding, merge, extract and translate.          *)
(*                                                                         *)
(* Arrays of the program are sequences here; the program's indices are     *)
(* 0-based and -1 is its "none", and the model keeps these values: entry i *)
(* of an array s is At(s, i).                                              *)
(***************************************************************************)
EXTENDS Integers, Sequences, FiniteSets, TLC

VARIABLES
    source,   \* the mesh source handed to NewHalfEdgeMesh
    err,      \* "unbuilt", or what NewHalfEdgeMesh returned: "nil", "ErrNonManifold"
    mesh,     \* the receiver m of the method calls
    octree,   \* the receiver o of the octree's method calls
    writer,   \* the receiver w of the OBJ writer's method calls
    old,      \* the receiver as it was before the last call
    call,     \* the last call: its name and its arguments
    ret,      \* what the last call returned
    ncalls    \* the number of method calls made on the receiver

vars == <<source, err, mesh, octree, writer, old, call, ret, ncalls>>

----------------------------------------------------------------------------
\* Bounds of the model.

\* Vertices of a source: 0 .. NumVertices-1.
NumVertices == 4
\* Faces of a source: 1 .. MaxFaces.
MaxFaces == 4
\* Patches (groups) of a source: 0 .. MaxPatches.
MaxPatches == 1
\* Faces of a source that come before its first group line.
LeadingFaces == 1
\* Method calls made on a mesh after its construction.
MaxCalls == 2
\* Length of the face list given to Extract.
MaxExtract == 2
\* The half edges SetFeatureEdge is called on: 0 .. MaxFeatureEdge.
MaxFeatureEdge == 5
\* The translation offsets: <<d, -d, 2d>> for d in 1 .. MaxOffset.
MaxOffset == 1

\* The bipyramids among the sources: over a ring of FaceDegree .. MaxRing
\* vertices.
MaxRing == 3

\* Items of any kind inserted into an octree before it is filled.
MaxItems == 2
\* Splits made by hand in an octree of up to MaxItems items.
MaxSplits == 3
\* Items of an octree split more often than that.
MaxDeepItems == 1
\* Splits made by hand in an octree that is filled.
MaxFillSplits == 1
\* Lines a writer has written at most when it is called again.
MaxWritten == 4
\* The degree of the faces of the enumerated sources (triangles, the least
\* degree a mesh source gives).
FaceDegree == 3

----------------------------------------------------------------------------
\* Arrays and maps.

At(s, i) == s[i + 1]

Indices(s) == 0 .. (Len(s) - 1)

SetAt(s, i, v) == [s EXCEPT ![i + 1] = v]

Min(a, b) == IF a <= b THEN a ELSE b

Max(a, b) == IF a >= b THEN a ELSE b

\* Go's remainder truncates toward zero: (-1) % n is -1 for n > 1.
GoRem(a, b) == IF a >= 0 THEN a % b ELSE -((-a) % b)

\* A Go map read: the zero value for a key that is absent.
MapGet(map, key) == IF key \in DOMAIN map THEN map[key] ELSE 0

MapPut(map, key, value) ==
    [x \in DOMAIN map \cup {key} |-> IF x = key THEN value ELSE map[x]]

MapDelete(map, key) == [x \in DOMAIN map \ {key} |-> map[x]]

EmptyMap == [x \in {} |-> 0]

----------------------------------------------------------------------------
\* The entities of a mesh.

Vertex(point, halfEdge) == [Point |-> point, HalfEdge |-> halfEdge]

Face(halfEdge, patch) == [HalfEdge |-> halfEdge, Patch |-> patch]

HalfEdge(origin, face, next, prev, twin, isFeature) ==
    [Origin |-> origin, Face |-> face, Next |-> next, Prev |-> prev,
     Twin |-> twin, IsFeature |-> isFeature]

IsBoundary(h) == h.Twin < 0

HalfEdgeMesh(vertices, faces, halfEdges, patches) ==
    [vertices |-> vertices, faces |-> faces, halfEdges |-> halfEdges,
     patches |-> patches]

EmptyMesh == HalfEdgeMesh(<<>>, <<>>, <<>>, <<>>)

GetNumberOfVertices(m) == Len(m.vertices)

GetNumberOfFaces(m) == Len(m.faces)

GetNumberOfHalfEdges(m) == Len(m.halfEdges)

GetNumberOfPatches(m) == Len(m.patches)

GetFace(m, index) == At(m.faces, index)

GetHalfEdge(m, index) == At(m.halfEdges, index)

\* Vector.Add, on points with integer coordinates.
VectorAdd(v, w) == <<v[1] + w[1], v[2] + w[2], v[3] + w[3]>>

\* Vector.Sub, Vector.Dot and Vector.Cross, on integer coordinates.
VectorSub(v, w) == <<v[1] - w[1], v[2] - w[2], v[3] - w[3]>>

VectorDot(v, w) == v[1] * w[1] + v[2] * w[2] + v[3] * w[3]

VectorCross(v, w) ==
    <<v[2] * w[3] - v[3] * w[2], v[3] * w[1] - v[1] * w[3],
      v[1] * w[2] - v[2] * w[1]>>

ZeroVector == <<0, 0, 0>>

\* A vector with a component that is not a number (NaN).
NaNVector == <<>>

\* Triangle.Normal of the triangle p, q, r.
TriangleNormal(p, q, r) == VectorCross(VectorSub(q, p), VectorSub(r, p))

----------------------------------------------------------------------------
\* NewHalfEdgeMesh.

\* One pass of the inner loop: half edge j of face i, whose first half edge
\* is n. st holds halfEdges (filled so far) and the pairing map sharedEdges.
BuildHalfEdge(st, face, i, n, j) ==
    LET d      == Len(face)
        vertex == At(face, j)
        k      == n + j
        next   == (j + 1) % d
        prev0  == GoRem(j - 1, d)
        prev   == prev0 - d * Min(0, prev0)
        h      == HalfEdge(vertex, i, n + next, n + prev, -1, FALSE)
        p      == Min(vertex, At(face, next))
        q      == Max(vertex, At(face, next))
        edge   == <<p, q>>
        hs     == Append(st.halfEdges, h)
    IN  IF edge \in DOMAIN st.sharedEdges
        THEN LET twin == st.sharedEdges[edge]
             IN  [st EXCEPT
                    !.halfEdges   = SetAt(SetAt(hs, k, [h EXCEPT !.Twin = twin]),
                                          twin, [At(hs, twin) EXCEPT !.Twin = k]),
                    !.sharedEdges = MapDelete(st.sharedEdges, edge)]
        ELSE [st EXCEPT !.halfEdges   = hs,
                        !.sharedEdges = MapPut(st.sharedEdges, edge, k)]

RECURSIVE BuildFaceEdges(_, _, _, _, _)
BuildFaceEdges(st, face, i, n, j) ==
    IF j >= Len(face) THEN st
    ELSE BuildFaceEdges(BuildHalfEdge(st, face, i, n, j), face, i, n, j + 1)

RECURSIVE BuildFaces(_, _, _)
BuildFaces(st, src, i) ==
    IF i >= Len(src.faces) THEN st
    ELSE LET face == At(src.faces, i)
             n    == Len(st.halfEdges)
             st1  == BuildFaceEdges(st, face, i, n, 0)
         IN  BuildFaces([st1 EXCEPT !.faces =
                             Append(@, Face(n, At(src.facePatches, i)))],
                        src, i + 1)

\* A faulty NewHalfEdgeMesh, to show that the closedness of the meshes
\* returned rests on the test of the pairing map: it returns the mesh
\* whatever is left in the map.
NewHalfEdgeMeshUnchecked(src) ==
    LET st == BuildFaces([halfEdges |-> <<>>, sharedEdges |-> EmptyMap,
                          faces |-> <<>>], src, 0)
    IN  [err  |-> "nil",
         mesh |-> HalfEdgeMesh(
                      [v \in 1 .. Len(src.vertices) |->
                          Vertex(src.vertices[v], -1)],
                      st.faces, st.halfEdges, src.patches)]

\* The mesh and the error NewHalfEdgeMesh returns: no mesh with
\* ErrNonManifold when the pairing map is not empty after the sweep.
NewHalfEdgeMesh(src) ==
    LET st == BuildFaces([halfEdges |-> <<>>, sharedEdges |-> EmptyMap,
                          faces |-> <<>>], src, 0)
    IN  IF DOMAIN st.sharedEdges # {}
        THEN [err |-> "ErrNonManifold", mesh |-> EmptyMesh]
        ELSE [err  |-> "nil",
              mesh |-> HalfEdgeMesh(
                           [v \in 1 .. Len(src.vertices) |->
                               Vertex(src.vertices[v], -1)],
                           st.faces, st.halfEdges, src.patches)]

----------------------------------------------------------------------------
\* Face traversal.

\* The loop of GetFaceHalfEdges: follow Next from the face's half edge
\* until it comes back. (The program's loop has no other exit; the model
\* leaves a walk longer than the half-edge array, which no mesh here has.)
RECURSIVE FaceCycle(_, _, _, _)
FaceCycle(m, first, next, halfEdges) ==
    LET hs == Append(halfEdges, next)
        nx == GetHalfEdge(m, next).Next
    IN  IF nx = first \/ Len(hs) > Len(m.halfEdges) THEN hs
        ELSE FaceCycle(m, first, nx, hs)

GetFaceHalfEdges(m, index) ==
    LET first == GetFace(m, index).HalfEdge
    IN  FaceCycle(m, first, first, <<>>)

RECURSIVE Origins(_, _, _)
Origins(m, ids, vertices) ==
    IF ids = <<>> THEN vertices
    ELSE Origins(m, Tail(ids), Append(vertices, GetHalfEdge(m, Head(ids)).Origin))

GetFaceVertices(m, index) == Origins(m, GetFaceHalfEdges(m, index), <<>>)

RECURSIVE TwinFaces(_, _, _)
TwinFaces(m, ids, faces) ==
    IF ids = <<>> THEN faces
    ELSE LET halfEdge == GetHalfEdge(m, Head(ids))
         IN  TwinFaces(m, Tail(ids),
                       IF ~IsBoundary(halfEdge)
                       THEN Append(faces, GetHalfEdge(m, halfEdge.Twin).Face)
                       ELSE faces)

GetFaceNeighbors(m, index) == TwinFaces(m, GetFaceHalfEdges(m, index), <<>>)

\* A faulty flipFace, to show that the link properties see the swap of next
\* and prev: it stores the old next in both.
FlippedHalfEdgeNextOnly(m, id) ==
    LET halfEdge == GetHalfEdge(m, id)
        origin   == GetHalfEdge(m, halfEdge.Next).Origin
    IN  HalfEdge(origin, halfEdge.Face, halfEdge.Next, halfEdge.Next,
                 halfEdge.Twin, FALSE)

\* The half edge flipFace stores at id: the origin is read from the array as
\* it is at that point of the loop, and the literal sets no IsFeature.
FlippedHalfEdge(m, id) ==
    LET halfEdge == GetHalfEdge(m, id)
        origin   == GetHalfEdge(m, halfEdge.Next).Origin
    IN  HalfEdge(origin, halfEdge.Face, halfEdge.Prev, halfEdge.Next,
                 halfEdge.Twin, FALSE)

RECURSIVE FlipHalfEdges(_, _)
FlipHalfEdges(m, ids) ==
    IF ids = <<>> THEN m
    ELSE FlipHalfEdges([m EXCEPT !.halfEdges =
                             SetAt(@, Head(ids), FlippedHalfEdge(m, Head(ids)))],
                       Tail(ids))

flipFace(m, index) == FlipHalfEdges(m, GetFaceHalfEdges(m, index))

IsClosed(m) == \A k \in Indices(m.halfEdges) : ~IsBoundary(GetHalfEdge(m, k))

IsConsistent(m) ==
    \A k \in Indices(m.halfEdges) :
        LET halfEdge == GetHalfEdge(m, k)
        IN  ~IsBoundary(halfEdge) =>
                GetHalfEdge(m, halfEdge.Twin).Origin # halfEdge.Origin

----------------------------------------------------------------------------
\* Feature edges.

\* The sum of the loop of GetFaceNormal over the corners i .. of the face:
\* UnitNormal().MulScalar(area) of a corner triangle is half its Normal(),
\* so the sum is kept doubled, in integers; a corner triangle without area
\* has the unit normal 0/0, and the sum is NaNVector from there on.
RECURSIVE CornerNormals(_, _, _, _)
CornerNormals(m, vertices, i, normal) ==
    IF i >= Len(vertices) THEN normal
    ELSE LET j == (i + 1) % Len(vertices)
             k == (i + 2) % Len(vertices)
             p == At(m.vertices, At(vertices, i)).Point
             q == At(m.vertices, At(vertices, j)).Point
             r == At(m.vertices, At(vertices, k)).Point
             n == TriangleNormal(p, q, r)
         IN  CornerNormals(m, vertices, i + 1,
                           IF normal = NaNVector \/ n = ZeroVector THEN NaNVector
                           ELSE VectorAdd(normal, n))

\* The direction of GetFaceNormal(index): the normal is this vector divided
\* by four times the area of the corner triangles, or NaNVector.
GetFaceNormal(m, index) ==
    CornerNormals(m, GetFaceVertices(m, index), 0, ZeroVector)

\* The thresholds of the model, in quarter turns: a right angle and a
\* straight angle.
Thresholds == {1, 2}

\* u.AngleTo(v) > threshold, for the angle in [0, pi] between u and v: more
\* than a right angle iff the dot product is negative, never more than a
\* straight angle, and no angle (a comparison that fails) when u or v is
\* NaNVector or zero.
AngleExceeds(u, v, threshold) ==
    /\ u # NaNVector /\ v # NaNVector
    /\ u # ZeroVector /\ v # ZeroVector
    /\ threshold = 1
    /\ VectorDot(u, v) < 0

\* m.GetHalfEdgeFaceAngle(index) > threshold
HalfEdgeFaceAngleExceeds(m, index, threshold) ==
    LET halfEdge == GetHalfEdge(m, index)
        twin     == GetHalfEdge(m, halfEdge.Twin)
    IN  AngleExceeds(GetFaceNormal(m, halfEdge.Face),
                     GetFaceNormal(m, twin.Face), threshold)

GetFeatureEdges(m) ==
    SelectSeq([i \in 1 .. Len(m.halfEdges) |-> i - 1],
              LAMBDA index : GetHalfEdge(m, index).IsFeature)

\* The loop of ComputeFeatureEdges from index on. halfEdge is the copy the
\* range clause makes of entry index as the array is at that iteration; the
\* assignment to the copy's IsFeature does not reach the array.
RECURSIVE MarkFeatureEdges(_, _, _)
MarkFeatureEdges(m, index, threshold) ==
    IF index >= Len(m.halfEdges) THEN m
    ELSE LET halfEdge == GetHalfEdge(m, index)
         IN  MarkFeatureEdges(
                 IF /\ ~IsBoundary(halfEdge)
                    /\ ~halfEdge.IsFeature
                    /\ HalfEdgeFaceAngleExceeds(m, index, threshold)
                 THEN [m EXCEPT !.halfEdges =
                          SetAt(@, halfEdge.Twin,
                                [At(@, halfEdge.Twin) EXCEPT !.IsFeature = TRUE])]
                 ELSE m,
                 index + 1, threshold)

\* m after m.ComputeFeatureEdges(threshold).
ComputeFeatureEdges(m, threshold) == MarkFeatureEdges(m, 0, threshold)

\* m after m.SetFeatureEdge(index, isFeature), for an index of a half edge.
SetFeatureEdge(m, index, isFeature) ==
    [m EXCEPT !.halfEdges = SetAt(@, index, [At(@, index) EXCEPT !.IsFeature = isFeature])]

\* The loop of ClearFeatureEdges from index on.
RECURSIVE ClearFeatureEdgesFrom(_, _)
ClearFeatureEdgesFrom(m, index) ==
    IF index >= Len(m.halfEdges) THEN m
    ELSE ClearFeatureEdgesFrom(SetFeatureEdge(m, index, FALSE), index + 1)

\* m after m.ClearFeatureEdges().
ClearFeatureEdges(m) == ClearFeatureEdgesFrom(m, 0)

----------------------------------------------------------------------------
\* Orient.

\* The first half edge of source, in face order, whose twin lies in target
\* decides; FALSE when there is none.
RECURSIVE CheckHalfEdges(_, _, _)
CheckHalfEdges(m, ids, target) ==
    IF ids = <<>> THEN FALSE
    ELSE LET halfEdge == GetHalfEdge(m, Head(ids))
         IN  IF ~IsBoundary(halfEdge)
                /\ GetHalfEdge(m, halfEdge.Twin).Face = target
             THEN halfEdge.Origin # GetHalfEdge(m, halfEdge.Twin).Origin
             ELSE CheckHalfEdges(m, Tail(ids), target)

checkFaceOrientation(m, source_, target) ==
    CheckHalfEdges(m, GetFaceHalfEdges(m, source_), target)

\* The loop over the neighbors of current. st: m, visited, queue, and
\* panicked once an index was out of range. flipFace(neighbor) reads
\* m.faces[neighbor] first, and panics where the mesh has no such face: a
\* half edge of a mesh Extract returned has Face = -1.
RECURSIVE OrientNeighbors(_, _, _)
OrientNeighbors(st, current, neighbors) ==
    IF neighbors = <<>> \/ st.panicked THEN st
    ELSE LET neighbor == Head(neighbors)
         IN  OrientNeighbors(
                 IF ~checkFaceOrientation(st.m, current, neighbor)
                 THEN IF neighbor \in Indices(st.m.faces)
                      THEN [st EXCEPT !.visited = SetAt(@, current, TRUE),
                                      !.m = flipFace(st.m, neighbor)]
                      ELSE [st EXCEPT !.visited = SetAt(@, current, TRUE),
                                      !.panicked = TRUE]
                 ELSE [st EXCEPT !.queue = Append(@, neighbor)],
                 current, Tail(neighbors))

\* The loop that pops the last entry of the queue until it is empty.
\* st.expanded lists the faces whose neighbors the loop went through.
\* visited[current] panics where current is no index of visited.
RECURSIVE OrientQueue(_)
OrientQueue(st) ==
    LET n == Len(st.queue)
    IN  IF n = 0 \/ st.panicked THEN st
        ELSE LET current == st.queue[n]
                 st1     == [st EXCEPT !.queue = SubSeq(@, 1, n - 1)]
             IN  IF current \notin Indices(st1.visited)
                 THEN [st1 EXCEPT !.panicked = TRUE]
                 ELSE IF ~At(st1.visited, current)
                 THEN LET st2 == [st1 EXCEPT !.visited = SetAt(@, current, TRUE),
                                             !.expanded = Append(@, current)]
                      IN  OrientQueue(OrientNeighbors(
                              st2, current, GetFaceNeighbors(st2.m, current)))
                 ELSE OrientQueue(st1)

RECURSIVE OrientFaces(_, _)
OrientFaces(st, i) ==
    IF i >= GetNumberOfFaces(st.m) \/ st.panicked THEN st
    ELSE OrientFaces(IF ~At(st.visited, i)
                     THEN OrientQueue([st EXCEPT !.queue = <<i>>])
                     ELSE st,
                     i + 1)

\* The state Orient starts its loops in.
OrientStart(m) ==
    [m        |-> m,
     visited  |-> [i \in 1 .. GetNumberOfFaces(m) |-> FALSE],
     queue    |-> <<>>,
     expanded |-> <<>>,
     panicked |-> FALSE]

\* m after m.Orient(); where Orient panics, m as the panic leaves it.
Orient(m) ==
    IF IsConsistent(m) THEN m
    ELSE OrientFaces(OrientStart(m), 0).m

\* m.Orient() panics with an index out of range.
OrientPanics(m) ==
    ~IsConsistent(m) /\ OrientFaces(OrientStart(m), 0).panicked

\* The faces m.Orient() expands, in the order in which it does.
OrientExpanded(m) ==
    IF IsConsistent(m) THEN <<>>
    ELSE OrientFaces(OrientStart(m), 0).expanded

----------------------------------------------------------------------------
\* GetComponents.

\* A faulty flood, to show that the component properties see every
\* neighbor: it enqueues the first neighbor only.
EnqueueFirstUnvisited(visited, queue, neighbors) ==
    IF neighbors # <<>> /\ ~At(visited, Head(neighbors))
    THEN Append(queue, Head(neighbors))
    ELSE queue

RECURSIVE EnqueueUnvisited(_, _, _)
EnqueueUnvisited(visited, queue, neighbors) ==
    IF neighbors = <<>> THEN queue
    ELSE EnqueueUnvisited(visited,
                          IF ~At(visited, Head(neighbors))
                          THEN Append(queue, Head(neighbors))
                          ELSE queue,
                          Tail(neighbors))

\* The loop that takes the first entry of the queue until it is empty.
\* st: visited, component, queue.
RECURSIVE ComponentQueue(_, _)
ComponentQueue(m, st) ==
    IF st.queue = <<>> THEN st
    ELSE LET current == Head(st.queue)
             queue   == Tail(st.queue)
         IN  IF ~At(st.visited, current)
             THEN LET visited == SetAt(st.visited, current, TRUE)
                  IN  ComponentQueue(m,
                          [visited   |-> visited,
                           component |-> Append(st.component, current),
                           queue     |-> EnqueueUnvisited(
                                             visited, queue,
                                             GetFaceNeighbors(m, current))])
             ELSE ComponentQueue(m, [st EXCEPT !.queue = queue])

RECURSIVE ComponentFaces(_, _, _, _)
ComponentFaces(m, visited, components, i) ==
    IF i >= GetNumberOfFaces(m) THEN components
    ELSE IF ~At(visited, i)
         THEN LET st == ComponentQueue(m, [visited   |-> visited,
                                           component |-> <<>>,
                                           queue     |-> <<i>>])
              IN  ComponentFaces(m, st.visited,
                                 Append(components, st.component), i + 1)
         ELSE ComponentFaces(m, visited, components, i + 1)

GetComponents(m) ==
    ComponentFaces(m, [i \in 1 .. GetNumberOfFaces(m) |-> FALSE], <<>>, 0)

----------------------------------------------------------------------------
\* Merge.

MergedFace(face, offsetHalfEdge, offsetPatch) ==
    Face(face.HalfEdge + offsetHalfEdge, face.Patch + offsetPatch)

\* A faulty Merge, to show that the merge properties see the twin: it
\* appends the twin as it was in n.
MergedHalfEdgeOldTwin(halfEdge, offsetVertex, offsetFace, offsetHalfEdge) ==
    HalfEdge(halfEdge.Origin + offsetVertex,
             halfEdge.Face + offsetFace,
             halfEdge.Next + offsetHalfEdge,
             halfEdge.Prev + offsetHalfEdge,
             halfEdge.Twin,
             halfEdge.IsFeature)

MergedHalfEdge(halfEdge, offsetVertex, offsetFace, offsetHalfEdge) ==
    HalfEdge(halfEdge.Origin + offsetVertex,
             halfEdge.Face + offsetFace,
             halfEdge.Next + offsetHalfEdge,
             halfEdge.Prev + offsetHalfEdge,
             IF ~IsBoundary(halfEdge) THEN halfEdge.Twin + offsetHalfEdge
             ELSE halfEdge.Twin,
             halfEdge.IsFeature)

\* The loop that appends the faces of n.
RECURSIVE MergeFaces(_, _, _, _)
MergeFaces(faces, rest, offsetHalfEdge, offsetPatch) ==
    IF rest = <<>> THEN faces
    ELSE MergeFaces(Append(faces, MergedFace(Head(rest), offsetHalfEdge, offsetPatch)),
                    Tail(rest), offsetHalfEdge, offsetPatch)

\* The loop that appends the half edges of n.
RECURSIVE MergeHalfEdges(_, _, _, _, _)
MergeHalfEdges(halfEdges, rest, offsetVertex, offsetFace, offsetHalfEdge) ==
    IF rest = <<>> THEN halfEdges
    ELSE MergeHalfEdges(
             Append(halfEdges, MergedHalfEdge(Head(rest), offsetVertex,
                                              offsetFace, offsetHalfEdge)),
             Tail(rest), offsetVertex, offsetFace, offsetHalfEdge)

\* m after m.Merge(n).
Merge(m, n) ==
    LET offsetVertex   == GetNumberOfVertices(m)
        offsetFace     == GetNumberOfFaces(m)
        offsetHalfEdge == GetNumberOfHalfEdges(m)
        offsetPatch    == GetNumberOfPatches(m)
    IN  HalfEdgeMesh(m.vertices \o n.vertices,
                     MergeFaces(m.faces, n.faces, offsetHalfEdge, offsetPatch),
                     MergeHalfEdges(m.halfEdges, n.halfEdges, offsetVertex,
                                    offsetFace, offsetHalfEdge),
                     m.patches \o n.patches)

----------------------------------------------------------------------------
\* Translate.

\* A faulty Translate, to show that the translate properties see the
\* direction: it moves the point against the offset.
TranslatedVertexBack(vertex, offset) ==
    Vertex(<<vertex.Point[1] - offset[1], vertex.Point[2] - offset[2],
             vertex.Point[3] - offset[3]>>, vertex.HalfEdge)

TranslatedVertex(vertex, offset) ==
    Vertex(VectorAdd(vertex.Point, offset), vertex.HalfEdge)

RECURSIVE TranslateVertices(_, _, _)
TranslateVertices(vertices, i, offset) ==
    IF i >= Len(vertices) THEN vertices
    ELSE TranslateVertices(SetAt(vertices, i, TranslatedVertex(At(vertices, i), offset)),
                           i + 1, offset)

\* m after m.Translate(offset).
Translate(m, offset) ==
    [m EXCEPT !.vertices = TranslateVertices(m.vertices, 0, offset)]

----------------------------------------------------------------------------
\* Extract.

\* map with the keys of ids that it lacks, each given the next dense index.
RECURSIVE IndexNew(_, _)
IndexNew(map, ids) ==
    IF ids = <<>> THEN map
    ELSE IndexNew(IF Head(ids) \notin DOMAIN map
                  THEN MapPut(map, Head(ids), Cardinality(DOMAIN map))
                  ELSE map,
                  Tail(ids))

\* The first loop: the index maps after the faces from position i on.
RECURSIVE ExtractIndex(_, _, _, _)
ExtractIndex(m, faces, i, ix) ==
    IF i >= Len(faces) THEN ix
    ELSE LET oldIndex == At(faces, i)
             patch    == GetFace(m, oldIndex).Patch
         IN  ExtractIndex(m, faces, i + 1,
                 [indexFaces     |-> MapPut(ix.indexFaces, oldIndex, i),
                  indexVertices  |-> IndexNew(ix.indexVertices,
                                              GetFaceVertices(m, oldIndex)),
                  indexHalfEdges |-> IndexNew(ix.indexHalfEdges,
                                              GetFaceHalfEdges(m, oldIndex)),
                  indexPatches   |-> IF patch # -1
                                     THEN IndexNew(ix.indexPatches, <<patch>>)
                                     ELSE ix.indexPatches])

\* The key that map sends to value (the index maps are one-to-one).
KeyOf(map, value) == CHOOSE key \in DOMAIN map : map[key] = value

ExtractedHalfEdge(m, ix, oldIndex) ==
    LET halfEdge == At(m.halfEdges, oldIndex)
    IN  HalfEdge(MapGet(ix.indexVertices, halfEdge.Origin),
                 -1,
                 MapGet(ix.indexHalfEdges, halfEdge.Next),
                 MapGet(ix.indexHalfEdges, halfEdge.Prev),
                 IF ~IsBoundary(halfEdge)
                 THEN MapGet(ix.indexHalfEdges, halfEdge.Twin)
                 ELSE halfEdge.Twin,
                 halfEdge.IsFeature)

\* A faulty Extract, to show that the extract properties see the faces'
\* half edges: it keeps the half edge index the face had in m.
ExtractedFaceOldHalfEdge(m, ix, oldIndex) ==
    LET face == At(m.faces, oldIndex)
    IN  Face(face.HalfEdge, MapGet(ix.indexPatches, face.Patch))

ExtractedFace(m, ix, oldIndex) ==
    LET face == At(m.faces, oldIndex)
    IN  Face(MapGet(ix.indexHalfEdges, face.HalfEdge),
             MapGet(ix.indexPatches, face.Patch))

\* The mesh m.Extract(faces) returns.
Extract(m, faces) ==
    LET ix == ExtractIndex(m, faces, 0,
                  [indexFaces |-> EmptyMap, indexVertices |-> EmptyMap,
                   indexHalfEdges |-> EmptyMap, indexPatches |-> EmptyMap])
        size(map) == Cardinality(DOMAIN map)
    IN  HalfEdgeMesh(
            [new \in 1 .. size(ix.indexVertices) |->
                At(m.vertices, KeyOf(ix.indexVertices, new - 1))],
            [new \in 1 .. Len(faces) |-> ExtractedFace(m, ix, faces[new])],
            [new \in 1 .. size(ix.indexHalfEdges) |->
                ExtractedHalfEdge(m, ix, KeyOf(ix.indexHalfEdges, new - 1))],
            [new \in 1 .. size(ix.indexPatches) |->
                At(m.patches, KeyOf(ix.indexPatches, new - 1))])

\* m.Extract(faces) panics with an index out of range: the loop over
\* indexPatches reads m.patches[oldIndex] for the patch of every face taken
\* that is not -1, and a face of a mesh Extract returned may name a patch
\* the mesh has not.
ExtractPanics(m, faces) ==
    \E i \in 1 .. Len(faces) :
        /\ GetFace(m, faces[i]).Patch # -1
        /\ GetFace(m, faces[i]).Patch \notin Indices(m.patches)

----------------------------------------------------------------------------
\* The mesh sources of the model.

SourceVertices == 0 .. (NumVertices - 1)

\* The point of source vertex v: integer coordinates, no three points on a
\* line and no four in a plane.
SourcePoint(v) == <<v, v * v, v * v * v>>

\* Faces: every tuple of FaceDegree distinct vertices that starts at its
\* least vertex, in both windings.
SourceFaces ==
    {f \in [1 .. FaceDegree -> SourceVertices] :
        /\ \A a, b \in 1 .. FaceDegree : a # b => f[a] # f[b]
        /\ \A a \in 2 .. FaceDegree : f[1] < f[a]}

\* The first face of every source.
FirstFace == SubSeq([a \in 1 .. FaceDegree |-> a - 1], 1, FaceDegree)

PatchName(p) == <<"patch", p>>

MeshSource(nv, faces, np, facePatches) ==
    [vertices    |-> SubSeq([v \in 1 .. nv |-> SourcePoint(v - 1)], 1, nv),
     faces       |-> faces,
     facePatches |-> facePatches,
     patches     |-> SubSeq([p \in 1 .. np |-> PatchName(p - 1)], 1, np)]

\* Face patches as an OBJ file gives them: the faces before the first group
\* line have patch -1, and a face after it has the last group named so far.
\* k faces come before the first group line, np group lines in all.
OBJFacePatches(nf, np, k) ==
    SubSeq([i \in 1 .. nf |-> IF i <= k THEN -1 ELSE np - 1], 1, nf)

\* The source with the faces FirstFace and rest, np patches, and k faces
\* before the first group line.
Source(rest, np, k) ==
    MeshSource(NumVertices, <<FirstFace>> \o rest, np,
               OBJFacePatches(Len(rest) + 1, np, k))

\* Face f in the other winding.
Reverse(f) == [a \in 1 .. Len(f) |-> f[Len(f) + 1 - a]]

\* Face f listed from its least vertex.
RECURSIVE FromLeast(_)
FromLeast(f) ==
    IF \A a \in 2 .. Len(f) : f[1] < f[a] THEN f
    ELSE FromLeast(Append(Tail(f), Head(f)))

\* The bipyramid over a ring of n vertices 0 .. n-1, with the apexes n and
\* n+1: a closed orientable surface of 2n triangles, every edge in two of
\* them. As listed here the faces are consistently wound.
BipyramidFace(n, i) ==
    IF i < n THEN <<i, (i + 1) % n, n>>
    ELSE <<((i - n) + 1) % n, i - n, n + 1>>

\* The bipyramid source with the faces of S wound the other way.
BipyramidSource(n, S, np, k) ==
    MeshSource(n + 2,
               SubSeq([i \in 1 .. 2 * n |->
                          FromLeast(IF (i - 1) \in S
                                    THEN Reverse(BipyramidFace(n, i - 1))
                                    ELSE BipyramidFace(n, i - 1))], 1, 2 * n),
               np, OBJFacePatches(2 * n, np, k))

NoSource == MeshSource(0, <<>>, 0, <<>>)

----------------------------------------------------------------------------
\* The state machine.

NoCall == [op |-> "none"]

\* No octree and no OBJ writer have been constructed.
NoOctree == <<>>
NoWriter == <<>>

Init ==
    /\ source = NoSource
    /\ err = "unbuilt"
    /\ mesh = EmptyMesh
    /\ octree = NoOctree
    /\ writer = NoWriter
    /\ old = EmptyMesh
    /\ call = NoCall
    /\ ret = <<>>
    /\ ncalls = 0

\* mesh, err := NewHalfEdgeMesh(source), on any list of up to MaxFaces
\* faces.
Build ==
    /\ err = "unbuilt"
    /\ \E nf \in 1 .. MaxFaces, np \in 0 .. MaxPatches :
          \E rest \in [1 .. (nf - 1) -> SourceFaces] :
              LET src == Source(rest, np, LeadingFaces)
              IN  /\ source' = src
                  /\ err' = NewHalfEdgeMesh(src).err
                  /\ mesh' = NewHalfEdgeMesh(src).mesh
    /\ old' = EmptyMesh
    /\ call' = [op |-> "NewHalfEdgeMesh"]
    /\ ret' = <<>>
    /\ ncalls' = 0
    /\ UNCHANGED <<octree, writer>>

\* mesh, err := NewHalfEdgeMesh(source), on a bipyramid, any of its faces
\* wound the other way.
BuildBipyramid ==
    /\ err = "unbuilt"
    /\ \E n \in FaceDegree .. MaxRing :
          \E S \in SUBSET (0 .. (2 * n - 1)) :
              LET src == BipyramidSource(n, S, MaxPatches, LeadingFaces)
              IN  /\ source' = src
                  /\ err' = NewHalfEdgeMesh(src).err
                  /\ mesh' = NewHalfEdgeMesh(src).mesh
    /\ old' = EmptyMesh
    /\ call' = [op |-> "NewHalfEdgeMesh"]
    /\ ret' = <<>>
    /\ ncalls' = 0
    /\ UNCHANGED <<octree, writer>>

\* A call on the mesh that NewHalfEdgeMesh returned.
CanCall == err = "nil" /\ ncalls < MaxCalls

\* m.Orient()
DoOrient ==
    /\ CanCall
    /\ mesh' = Orient(mesh)
    /\ err' = IF OrientPanics(mesh) THEN "panic" ELSE err
    /\ old' = mesh
    /\ call' = [op |-> "Orient"]
    /\ ret' = <<>>
    /\ ncalls' = ncalls + 1
    /\ UNCHANGED <<source, octree, writer>>

Offsets == {<<d, 0 - d, 2 * d>> : d \in 1 .. MaxOffset}

\* m.Translate(offset)
DoTranslate ==
    /\ CanCall
    /\ \E offset \in Offsets :
          /\ mesh' = Translate(mesh, offset)
          /\ call' = [op |-> "Translate", offset |-> offset]
    /\ old' = mesh
    /\ ret' = <<>>
    /\ ncalls' = ncalls + 1
    /\ UNCHANGED <<source, err, octree, writer>>

\* The meshes given to Merge: the two-faced meshes NewHalfEdgeMesh builds,
\* the second face wound against the first or with it.
MergeArguments ==
    {NewHalfEdgeMesh(Source(<<face>>, MaxPatches, LeadingFaces)).mesh :
        face \in {f \in SourceFaces : \A v \in 1 .. FaceDegree : f[v] < FaceDegree}}

\* m.Merge(n), n one of the meshes above or m itself.
DoMerge ==
    /\ CanCall
    /\ \E n \in MergeArguments \cup {mesh} :
          /\ mesh' = Merge(mesh, n)
          /\ call' = [op |-> "Merge", n |-> n]
    /\ old' = mesh
    /\ ret' = <<>>
    /\ ncalls' = ncalls + 1
    /\ UNCHANGED <<source, err, octree, writer>>

\* The face lists given to Extract: up to MaxExtract faces of the mesh, in
\* any order, a face possibly named twice.
FaceListsOf(m) ==
    UNION {[1 .. len -> Indices(m.faces)] : len \in 1 .. MaxExtract}

\* m.Extract(faces)
DoExtract ==
    /\ CanCall
    /\ \E faces \in FaceListsOf(mesh) :
          /\ ret' = IF ExtractPanics(mesh, faces) THEN <<>> ELSE Extract(mesh, faces)
          /\ err' = IF ExtractPanics(mesh, faces) THEN "panic" ELSE err
          /\ call' = [op |-> "Extract", faces |-> faces]
    /\ old' = mesh
    /\ ncalls' = ncalls + 1
    /\ UNCHANGED <<source, mesh, octree, writer>>

\* A call on the mesh e that the last call, e := m.Extract(faces), returned:
\* ret holds e.
CanCallExtracted == CanCall /\ call.op = "Extract"

\* e.Orient(), which leaves e in ret.
DoOrientExtracted ==
    /\ CanCallExtracted
    /\ ret' = Orient(ret)
    /\ err' = IF OrientPanics(ret) THEN "panic" ELSE err
    /\ old' = ret
    /\ call' = [op |-> "e.Orient"]
    /\ ncalls' = ncalls + 1
    /\ UNCHANGED <<source, mesh, octree, writer>>

\* e.Merge(n), n one of the meshes given to Merge or e itself, which leaves
\* e in ret.
DoMergeExtracted ==
    /\ CanCallExtracted
    /\ \E n \in MergeArguments \cup {ret} :
          /\ ret' = Merge(ret, n)
          /\ call' = [op |-> "e.Merge", n |-> n]
    /\ old' = ret
    /\ ncalls' = ncalls + 1
    /\ UNCHANGED <<source, err, mesh, octree, writer>>

\* e.Extract(faces), which leaves the mesh it returns in ret, or e where it
\* panics.
DoExtractExtracted ==
    /\ CanCallExtracted
    /\ \E faces \in FaceListsOf(ret) :
          /\ ret' = IF ExtractPanics(ret, faces) THEN ret ELSE Extract(ret, faces)
          /\ err' = IF ExtractPanics(ret, faces) THEN "panic" ELSE err
          /\ call' = [op |-> "e.Extract", faces |-> faces]
    /\ old' = ret
    /\ ncalls' = ncalls + 1
    /\ UNCHANGED <<source, mesh, octree, writer>>

\* m.ComputeFeatureEdges(threshold)
DoComputeFeatureEdges ==
    /\ CanCall
    /\ \E threshold \in Thresholds :
          /\ mesh' = ComputeFeatureEdges(mesh, threshold)
          /\ call' = [op |-> "ComputeFeatureEdges", threshold |-> threshold]
    /\ old' = mesh
    /\ ret' = <<>>
    /\ ncalls' = ncalls + 1
    /\ UNCHANGED <<source, err, octree, writer>>

\* m.SetFeatureEdge(index, isFeature), on one of the first half edges.
DoSetFeatureEdge ==
    /\ CanCall
    /\ \E index \in Indices(mesh.halfEdges) \cap (0 .. MaxFeatureEdge), isFeature \in BOOLEAN :
          /\ mesh' = SetFeatureEdge(mesh, index, isFeature)
          /\ call' = [op |-> "SetFeatureEdge", index |-> index, isFeature |-> isFeature]
    /\ old' = mesh
    /\ ret' = <<>>
    /\ ncalls' = ncalls + 1
    /\ UNCHANGED <<source, err, octree, writer>>

\* m.ClearFeatureEdges()
DoClearFeatureEdges ==
    /\ CanCall
    /\ mesh' = ClearFeatureEdges(mesh)
    /\ old' = mesh
    /\ call' = [op |-> "ClearFeatureEdges"]
    /\ ret' = <<>>
    /\ ncalls' = ncalls + 1
    /\ UNCHANGED <<source, err, octree, writer>>

\* m.GetFeatureEdges()
DoGetFeatureEdges ==
    /\ CanCall
    /\ ret' = GetFeatureEdges(mesh)
    /\ call' = [op |-> "GetFeatureEdges"]
    /\ old' = mesh
    /\ ncalls' = ncalls + 1
    /\ UNCHANGED <<source, err, mesh, octree, writer>>

\* m.GetComponents()
DoGetComponents ==
    /\ CanCall
    /\ ret' = GetComponents(mesh)
    /\ call' = [op |-> "GetComponents"]
    /\ old' = mesh
    /\ ncalls' = ncalls + 1
    /\ UNCHANGED <<source, err, mesh, octree, writer>>

Next ==
    \/ Build
    \/ BuildBipyramid
    \/ DoOrient
    \/ DoTranslate
    \/ DoMerge
    \/ DoExtract
    \/ DoOrientExtracted
    \/ DoMergeExtracted
    \/ DoExtractExtracted
    \/ DoGetComponents
    \/ DoComputeFeatureEdges
    \/ DoSetFeatureEdge
    \/ DoClearFeatureEdges
    \/ DoGetFeatureEdges

Spec == Init /\ [][Next]_vars

-----------------------------------------------------------------------------
\* float64 arithmetic.  A float64 that is a number is sign * man * 2^exp
\* with man a natural number of at most MantissaBits bits; the values met
\* here are far from the least and the greatest float64.  A natural number is the sequence of its digits in
\* base LimbBase, the least significant first, with no leading zero.

MantissaBits == 53

LimbBits == 14

LimbBase == 2 ^ LimbBits

\* The digits without the leading zeros.
NatNorm(a) ==
    IF \A i \in 1 .. Len(a) : a[i] = 0 THEN <<>>
    ELSE SubSeq(a, 1, CHOOSE i \in 1 .. Len(a) :
                          a[i] # 0 /\ \A j \in i + 1 .. Len(a) : a[j] = 0)

\* The natural number of an int of the model that is not negative.
NatOf(n) ==
    NatNorm(<<n % LimbBase, (n \div LimbBase) % LimbBase,
              n \div (LimbBase * LimbBase)>>)

Limb(a, i) == IF i \in 1 .. Len(a) THEN a[i] ELSE 0

\* The digits of the number of which a gives, place by place, multiples of
\* the powers of LimbBase, from the place i on and with a carry.
RECURSIVE NatCarryFrom(_, _, _)
NatCarryFrom(a, i, carry) ==
    IF i > Len(a) /\ carry = 0 THEN <<>>
    ELSE <<(Limb(a, i) + carry) % LimbBase>>
             \o NatCarryFrom(a, i + 1, (Limb(a, i) + carry) \div LimbBase)

NatCarry(a) == NatNorm(NatCarryFrom(a, 1, 0))

NatAdd(a, b) == NatCarry([i \in 1 .. Max(Len(a), Len(b)) |-> Limb(a, i) + Limb(b, i)])

\* a - b for a >= b.
NatSub(a, b) == NatCarry([i \in 1 .. Len(a) |-> a[i] - Limb(b, i)])

\* -1, 0 or 1 as a < b, a = b or a > b: by the lengths, and for equal
\* lengths by the most significant digit that differs.
NatCompare(a, b) ==
    IF Len(a) > Len(b) THEN 1
    ELSE IF Len(a) < Len(b) THEN 0 - 1
    ELSE IF a = b THEN 0
    ELSE IF \E i \in 1 .. Len(a) :
               a[i] > b[i] /\ \A j \in i + 1 .. Len(a) : a[j] = b[j]
    THEN 1
    ELSE 0 - 1

\* a * d for a digit d.
NatMulLimb(a, d) == NatCarry([i \in 1 .. Len(a) |-> a[i] * d])

\* a * b for a of at most four digits, as a mantissa is.
NatMul(a, b) ==
    NatCarry([k \in 1 .. Len(a) + Len(b) |->
                 Limb(a, 1) * Limb(b, k) + Limb(a, 2) * Limb(b, k - 1)
                     + Limb(a, 3) * Limb(b, k - 2) + Limb(a, 4) * Limb(b, k - 3)])

\* a * 2^k
NatShiftLeft(a, k) ==
    IF a = <<>> THEN a
    ELSE [i \in 1 .. k \div LimbBits |-> 0] \o NatMulLimb(a, 2 ^ (k % LimbBits))

\* b \div 2^r for r < LimbBits
NatShiftRightBits(b, r) ==
    NatNorm([i \in 1 .. Len(b) |->
                b[i] \div 2 ^ r + (Limb(b, i + 1) % 2 ^ r) * 2 ^ (LimbBits - r)])

\* a \div 2^k
NatShiftRight(a, k) ==
    NatShiftRightBits(SubSeq(a, k \div LimbBits + 1, Len(a)), k % LimbBits)

\* The number of bits of a natural number.
NatBitLen(a) ==
    IF a = <<>> THEN 0
    ELSE LimbBits * (Len(a) - 1)
             + (CHOOSE n \in 1 .. LimbBits : a[Len(a)] \div 2 ^ (n - 1) = 1)

\* One bit of a quotient by b: of r2 < 2b.
NatDivBit(b, r2) ==
    IF NatCompare(r2, b) >= 0
    THEN [quo |-> <<1>>, rem |-> NatSub(r2, b)]
    ELSE [quo |-> <<>>, rem |-> r2]

\* The bits quo of a quotient followed by those of second.
NatDivJoin(quo, second) ==
    IF quo = <<>> THEN second
    ELSE IF second.quo = <<>> THEN [quo |-> quo, rem |-> second.rem]
    ELSE [quo |-> NatAdd(quo, second.quo), rem |-> second.rem]

\* The quotient and the remainder of (r * 2 + lead) * 2^(n - 1) by b, for
\* r < b and a bit lead: the first of its n bits is found from 2r + lead,
\* and the bits of the first half before those of the second.
RECURSIVE NatDivBits(_, _, _, _)
RECURSIVE NatDivRest(_, _, _)
NatDivRest(b, first, n) ==
    NatDivJoin(NatShiftLeft(first.quo, n), NatDivBits(b, first.rem, 0, n))

NatDivBits(b, r, lead, n) ==
    IF n = 1 THEN NatDivBit(b, NatAdd(NatAdd(r, r), NatOf(lead)))
    ELSE NatDivRest(b, NatDivBits(b, r, lead, n \div 2), n - n \div 2)

\* The number sign * man * 2^exp.
Number(sign, man, exp) == [sign |-> sign, man |-> man, exp |-> exp]

\* The float64 of an int of the model.
Float64(n) == Number(IF n < 0 THEN 0 - 1 ELSE 1, NatOf(IF n < 0 THEN 0 - n ELSE n), 0)

\* -1, 0 or 1 as a number is negative, zero or positive.
Sign(x) == IF x.man = <<>> THEN 0 ELSE x.sign

Negated(x) == [x EXCEPT !.sign = 0 - x.sign]

\* The sum of two numbers of mantissas a and b at one exponent.
AlignedAdd(xsign, a, ysign, b, exp) ==
    IF xsign = ysign THEN Number(xsign, NatAdd(a, b), exp)
    ELSE IF NatCompare(a, b) >= 0 THEN Number(xsign, NatSub(a, b), exp)
    ELSE Number(ysign, NatSub(b, a), exp)

ExactAddAt(x, y, exp) ==
    AlignedAdd(x.sign, NatShiftLeft(x.man, x.exp - exp),
               y.sign, NatShiftLeft(y.man, y.exp - exp), exp)

\* The sum and the product of two numbers, not rounded.
ExactAdd(x, y) ==
    IF x.man = <<>> THEN y
    ELSE IF y.man = <<>> THEN x
    ELSE ExactAddAt(x, y, Min(x.exp, y.exp))

ExactMul(x, y) == Number(x.sign * y.sign, NatMul(x.man, y.man), x.exp + y.exp)

\* The float64 nearest to a number x, the one of even mantissa of two that
\* are as near: k bits are dropped, kept are the leading MantissaBits bits,
\* and rest is -1, 0 or 1 as the bits dropped are less than, equal to or
\* more than a half.
Rounded(x, k, kept, rest) ==
    Number(x.sign,
           IF rest > 0 \/ (rest = 0 /\ kept[1] % 2 = 1)
           THEN NatAdd(kept, <<1>>) ELSE kept,
           x.exp + k)

RoundKept(x, k, kept) ==
    Rounded(x, k, kept, NatCompare(NatSub(x.man, NatShiftLeft(kept, k)),
                                   NatShiftLeft(<<1>>, k - 1)))

RoundDropping(x, k) ==
    IF k <= 0 THEN x ELSE RoundKept(x, k, NatShiftRight(x.man, k))

\* A small whole number is kept with the exponent 0 and at most two
\* digits, and is then the int SmallOf of the model.  The sum and the
\* difference of two of them are whole numbers far below 2^MantissaBits,
\* which are float64: they are found as ints, and so is their order.
IsSmall(x) == x.exp = 0 /\ Len(x.man) <= 2

SmallOf(x) == x.sign * (Limb(x.man, 1) + Limb(x.man, 2) * LimbBase)

\* The number x, kept as a small whole number if man \div 2^k, which is
\* whole, is one.
KeptWhole(x, whole, k) ==
    IF Len(whole) <= 2 /\ NatShiftLeft(whole, k) = x.man
    THEN Number(x.sign, whole, 0)
    ELSE x

\* The number x, kept as a small whole number if it is one.
Kept(x) ==
    IF x.man = <<>> THEN Number(x.sign, <<>>, 0)
    ELSE IF x.exp < 0 THEN KeptWhole(x, NatShiftRight(x.man, 0 - x.exp), 0 - x.exp)
    ELSE IF x.exp > 0 /\ x.exp + NatBitLen(x.man) <= 2 * LimbBits
    THEN Number(x.sign, NatShiftLeft(x.man, x.exp), 0)
    ELSE x

Round64(x) == Kept(RoundDropping(x, NatBitLen(x.man) - MantissaBits))

\* x + y, x - y and x * y of float64.
Add64(x, y) ==
    IF IsSmall(x) /\ IsSmall(y) THEN Float64(SmallOf(x) + SmallOf(y))
    ELSE Round64(ExactAdd(x, y))

Sub64(x, y) ==
    IF IsSmall(x) /\ IsSmall(y) THEN Float64(SmallOf(x) - SmallOf(y))
    ELSE Round64(ExactAdd(x, Negated(y)))

Mul64(x, y) == Round64(ExactMul(x, y))

\* 1.0 / y, for y # 0.  The quotient 2^shift \div y.man is taken to two
\* bits more than the mantissa, and one bit more says whether a remainder
\* is left.
InverseOf(y, shift, division) ==
    Round64(Number(y.sign,
                   IF division.rem = <<>>
                   THEN NatAdd(division.quo, division.quo)
                   ELSE NatAdd(NatAdd(division.quo, division.quo), <<1>>),
                   0 - y.exp - shift - 1))

InverseShifted(y, shift) ==
    InverseOf(y, shift, NatDivBits(y.man, <<>>, 1, shift + 1))

Inverse64(y) == InverseShifted(y, NatBitLen(y.man) + MantissaBits + 1)

\* -1, 0 or 1 as x < y, x = y or x > y.
Compare64(x, y) ==
    IF IsSmall(x) /\ IsSmall(y)
    THEN (IF SmallOf(x) < SmallOf(y) THEN 0 - 1
          ELSE IF SmallOf(x) = SmallOf(y) THEN 0 ELSE 1)
    ELSE Sign(ExactAdd(x, Negated(y)))

\* x < y and x > y
Less64(x, y) == Compare64(x, y) < 0

Greater64(x, y) == Less64(y, x)

\* x = y as numbers.
Equal64(x, y) == Compare64(x, y) = 0

\* x <= y
AtMost64(x, y) == Compare64(x, y) <= 0

\* The float64 0.5.
Half64 == Number(1, <<1>>, 0 - 1)

\* The int of the model that a natural number of at most three digits is.
NatInt(a) == Limb(a, 1) + Limb(a, 2) * LimbBase + Limb(a, 3) * LimbBase * LimbBase

\* A number is whole: it has no bit below the units.
IsWhole(x) ==
    x.exp >= 0 \/ NatShiftLeft(NatShiftRight(x.man, 0 - x.exp), 0 - x.exp) = x.man

\* The int of the model that a whole number is.
WholeOf(x) ==
    IF IsSmall(x) THEN SmallOf(x)
    ELSE x.sign * NatInt(IF x.exp >= 0 THEN NatShiftLeft(x.man, x.exp)
                         ELSE NatShiftRight(x.man, 0 - x.exp))

\* Vectors of float64: v.Sub(w), v.Dot(w) and v.Cross(w) as the program
\* computes them, every operation rounded.
Vector64(v) == <<Float64(v[1]), Float64(v[2]), Float64(v[3])>>

Sub64Vector(v, w) == <<Sub64(v[1], w[1]), Sub64(v[2], w[2]), Sub64(v[3], w[3])>>

Add64Vector(v, w) == <<Add64(v[1], w[1]), Add64(v[2], w[2]), Add64(v[3], w[3])>>

IsWholeVector(v) == IsWhole(v[1]) /\ IsWhole(v[2]) /\ IsWhole(v[3])

WholeVector(v) == <<WholeOf(v[1]), WholeOf(v[2]), WholeOf(v[3])>>

Dot64(v, w) ==
    Add64(Add64(Mul64(v[1], w[1]), Mul64(v[2], w[2])), Mul64(v[3], w[3]))

Cross64(v, w) ==
    <<Sub64(Mul64(v[2], w[3]), Mul64(v[3], w[2])),
      Sub64(Mul64(v[3], w[1]), Mul64(v[1], w[3])),
      Sub64(Mul64(v[1], w[2]), Mul64(v[2], w[1]))>>

\* The constant epsilon of Ray.IntersectsTriangle: the float64 of 1e-8.
Epsilon == Inverse64(Float64(100000000))

\* r.IntersectsTriangle(query), for a ray and a triangle of whole numbers.
\* Each value the program holds in a variable is computed once and handed
\* on under the name of that variable; t is invDet * e2.Dot(q).

\* The returns of the program, in its order.
HitOfCoordinates(det, u, v, t) ==
    /\ ~Less64(det, Epsilon)
    /\ ~(Less64(u, Float64(0)) \/ Greater64(u, Float64(1)))
    /\ ~(Less64(v, Float64(0)) \/ Greater64(Add64(u, v), Float64(1)))
    /\ Greater64(t, Epsilon)

HitOfInverse(det, invDet, direction, e2, s, p, q) ==
    HitOfCoordinates(det, Mul64(invDet, Dot64(s, p)),
                     Mul64(invDet, Dot64(direction, q)),
                     Mul64(invDet, Dot64(e2, q)))

HitOfDeterminant(det, direction, e2, s, p, q) ==
    HitOfInverse(det, Inverse64(det), direction, e2, s, p, q)

HitOfCross(direction, e1, e2, s, p) ==
    HitOfDeterminant(Dot64(e1, p), direction, e2, s, p, Cross64(s, e1))

HitOfEdges(direction, e1, e2, s) ==
    HitOfCross(direction, e1, e2, s, Cross64(direction, e2))

RayIntersectsTriangle(r, query) ==
    HitOfEdges(Vector64(r.Direction),
               Sub64Vector(Vector64(query.Q), Vector64(query.P)),
               Sub64Vector(Vector64(query.R), Vector64(query.P)),
               Sub64Vector(Vector64(r.Origin), Vector64(query.P)))

\* t.IntersectsRay(query)
TriangleIntersectsRay(t, query) == RayIntersectsTriangle(query, t)

----------------------------------------------------------------------------
\* Collision geometry: boxes, points, triangles and rays.  The coordinates
\* of a box and of a point are float64 numbers, and what the program
\* computes of them is rounded as the program rounds it.  The corners of a
\* triangle and the origin and direction of a ray are whole numbers, kept
\* as ints of the model: a triangle and a ray are tested against boxes of
\* whole coordinates, on which the program's arithmetic is exact, and a
\* quotient of two such numbers is kept as a fraction.

Abs(x) == IF x < 0 THEN 0 - x ELSE x

VectorAbs(v) == <<Abs(v[1]), Abs(v[2]), Abs(v[3])>>

\* AABB{Center, HalfSize}
AABB(center, halfSize) == [Center |-> center, HalfSize |-> halfSize]

\* The box of a centre and a half size of whole numbers.
AABB64(center, halfSize) == AABB(Vector64(center), Vector64(halfSize))

\* A box of whole coordinates, and its coordinates as ints.
IsWholeAABB(a) == IsWholeVector(a.Center) /\ IsWholeVector(a.HalfSize)

WholeAABB(a) == AABB(WholeVector(a.Center), WholeVector(a.HalfSize))

GetMinBound(a) == Sub64Vector(a.Center, a.HalfSize)

GetMaxBound(a) == Add64Vector(a.Center, a.HalfSize)

\* octant&bit == bit, bit a power of two.
HasBit(octant, bit) == (octant \div bit) % 2 = 1

\* a.HalfSize.MulScalar(0.5)
HalfSize64(halfSize) ==
    <<Mul64(halfSize[1], Half64), Mul64(halfSize[2], Half64), Mul64(halfSize[3], Half64)>>

\* center[i] += halfSize[i] for a set bit of the octant, -= for a clear
\* one.
ShiftedCenter(center, halfSize, octant, bit) ==
    IF HasBit(octant, bit) THEN Add64(center, halfSize) ELSE Sub64(center, halfSize)

\* The box Octant returns, halfSize being the half size it has computed.
OctantOfHalfSize(a, halfSize, octant) ==
    AABB(<<ShiftedCenter(a.Center[1], halfSize[1], octant, 4),
           ShiftedCenter(a.Center[2], halfSize[2], octant, 2),
           ShiftedCenter(a.Center[3], halfSize[3], octant, 1)>>,
         halfSize)

\* a.Octant(octant), for an octant in range: half the size, the centre
\* moved by the new half size along each axis, up for a set bit and down
\* for a clear one, each of the sums rounded.
Octant(a, octant) == OctantOfHalfSize(a, HalfSize64(a.HalfSize), octant)

\* The return of AABB.IntersectsAABB, of the four bounds it has computed.
BoundsIntersect(aMin, aMax, qMin, qMax) ==
    \A i \in 1 .. 3 : AtMost64(aMin[i], qMax[i]) /\ AtMost64(qMin[i], aMax[i])

\* a.IntersectsAABB(query)
AABBIntersectsAABB(a, query) ==
    BoundsIntersect(GetMinBound(a), GetMaxBound(a), GetMinBound(query), GetMaxBound(query))

\* v.IntersectsAABB(query)
VectorIntersectsAABB(v, query) ==
    \A i \in 1 .. 3 :
        /\ ~Less64(v[i], Sub64(query.Center[i], query.HalfSize[i]))
        /\ ~Greater64(v[i], Add64(query.Center[i], query.HalfSize[i]))

\* Triangle{P, Q, R}
Triangle(p, q, r) == [P |-> p, Q |-> q, R |-> r]

\* One axis test of Triangle.IntersectsAABB: the projections p and q of two
\* corners lie on one side of the box's radius rad.
Separated(p, q, rad) == Min(p, q) > rad \/ Max(p, q) < 0 - rad

\* The tests on the axes e x X, e x Y and e x Z, for the corners u and w.
AxisTestX(e, u, w, h) ==
    Separated(e[3] * u[2] - e[2] * u[3], e[3] * w[2] - e[2] * w[3],
              Abs(e[3]) * h[2] + Abs(e[2]) * h[3])

AxisTestY(e, u, w, h) ==
    Separated((0 - e[3]) * u[1] + e[1] * u[3], (0 - e[3]) * w[1] + e[1] * w[3],
              Abs(e[3]) * h[1] + Abs(e[1]) * h[3])

AxisTestZ(e, u, w, h) ==
    Separated(e[2] * u[1] - e[1] * u[2], e[2] * w[1] - e[1] * w[2],
              Abs(e[2]) * h[1] + Abs(e[1]) * h[2])

\* t.IntersectsAABB(query), for a box of whole coordinates given as ints.
TriangleIntersectsAABB(t, query) ==
    LET v0 == VectorSub(t.P, query.Center)
        v1 == VectorSub(t.Q, query.Center)
        v2 == VectorSub(t.R, query.Center)
        h == query.HalfSize
        e0 == VectorSub(v1, v0)
        e1 == VectorSub(v2, v1)
        e2 == VectorSub(v0, v2)
        n == VectorCross(e0, e1)
        e == VectorDot(h, VectorAbs(n))
        s == 0 - VectorDot(n, v0)
    IN  /\ \A i \in 1 .. 3 :
              ~(\/ Min(Min(v0[i], v1[i]), v2[i]) > h[i]
                \/ Max(Max(v0[i], v1[i]), v2[i]) < 0 - h[i])
        /\ ~AxisTestX(e0, v0, v2, h)
        /\ ~AxisTestY(e0, v0, v2, h)
        /\ ~AxisTestZ(e0, v1, v2, h)
        /\ ~AxisTestX(e1, v0, v2, h)
        /\ ~AxisTestY(e1, v0, v2, h)
        /\ ~AxisTestZ(e1, v0, v1, h)
        /\ ~AxisTestX(e2, v0, v1, h)
        /\ ~AxisTestY(e2, v0, v1, h)
        /\ ~AxisTestZ(e2, v1, v2, h)
        /\ s - e <= 0
        /\ s + e >= 0

\* Ray{Origin, Direction}
Ray(origin, direction) == [Origin |-> origin, Direction |-> direction]

\* The float64 values of Ray.IntersectsAABB: a fraction num/den with den > 0,
\* an infinity of sign inf, or NaN.
Quotient(num, den) ==
    [nan |-> FALSE, inf |-> 0,
     num |-> IF den < 0 THEN 0 - num ELSE num,
     den |-> IF den < 0 THEN 0 - den ELSE den]

Infinity(sign) == [nan |-> FALSE, inf |-> sign, num |-> 0, den |-> 1]

NaN == [nan |-> TRUE, inf |-> 0, num |-> 0, den |-> 1]

\* x / d in float64: a division by zero gives an infinity, 0/0 gives NaN.
FloatDiv(x, d) ==
    IF d # 0 THEN Quotient(x, d)
    ELSE IF x > 0 THEN Infinity(1)
    ELSE IF x < 0 THEN Infinity(0 - 1)
    ELSE NaN

\* a < b in float64: false when either is NaN.
FloatLess(a, b) ==
    /\ ~a.nan
    /\ ~b.nan
    /\ IF a.inf # 0 \/ b.inf # 0
       THEN a.inf < b.inf
       ELSE a.num * b.den < b.num * a.den

\* a >= b in float64: false when either is NaN.
FloatGeq(a, b) == ~a.nan /\ ~b.nan /\ ~FloatLess(a, b)

\* The builtins min and max: NaN when either argument is NaN.
FloatMin(a, b) == IF a.nan \/ b.nan THEN NaN ELSE IF FloatLess(b, a) THEN b ELSE a

FloatMax(a, b) == IF a.nan \/ b.nan THEN NaN ELSE IF FloatLess(a, b) THEN b ELSE a

\* The entry and exit parameters of the ray in the slab of axis i, between
\* the box's bounds GetMinBound()[i] and GetMaxBound()[i].
SlabT1(r, query, i) ==
    FloatDiv((query.Center[i] - query.HalfSize[i]) - r.Origin[i], r.Direction[i])

SlabT2(r, query, i) ==
    FloatDiv((query.Center[i] + query.HalfSize[i]) - r.Origin[i], r.Direction[i])

SlabMin(r, query, i) == FloatMin(SlabT1(r, query, i), SlabT2(r, query, i))

SlabMax(r, query, i) == FloatMax(SlabT1(r, query, i), SlabT2(r, query, i))

\* r.IntersectsAABB(query), for a box of whole coordinates given as ints.
RayIntersectsAABB(r, query) ==
    LET tmin == FloatMax(FloatMax(SlabMin(r, query, 1), SlabMin(r, query, 2)),
                         SlabMin(r, query, 3))
        tmax == FloatMin(FloatMin(SlabMax(r, query, 1), SlabMax(r, query, 2)),
                         SlabMax(r, query, 3))
    IN  FloatGeq(tmax, FloatMax(tmin, Quotient(0, 1)))

----------------------------------------------------------------------------
\* The linear octree (package spatial).

\* The program's constants.
OctreeMaxDepth == 21

OctreeMaxLeafItems == 100

\* The width of a location code, a uint64.
CodeBits == 64

\* A location code is kept as its octal digits, the least significant
\* first; the last digit holds the bits that are left of the width.
CodeDigits == (CodeBits + 2) \div 3

TopDigitRange == 2 ^ (CodeBits - 3 * (CodeDigits - 1))

\* The code 1 of the root.
RootCode == SubSeq([i \in 1 .. CodeDigits |-> IF i = 1 THEN 1 ELSE 0], 1, CodeDigits)

\* The code 0.
ZeroCode == [RootCode EXCEPT ![1] = 0]

\* code << 3: the bits shifted beyond the width are lost.
ShiftLeft3(code) ==
    <<0>> \o SubSeq(code, 1, CodeDigits - 2)
          \o <<code[CodeDigits - 1] % TopDigitRange>>

\* code >> (3 * depth)
ShiftRight3(code, depth) ==
    SubSeq(code, depth + 1, CodeDigits) \o SubSeq(ZeroCode, 1, Min(depth, CodeDigits))

\* code | uint64(octant)
BitOr(code, octant) ==
    LET Bit(b) == IF HasBit(code[1], b) \/ HasBit(octant, b) THEN b ELSE 0
    IN  [code EXCEPT ![1] = Bit(1) + Bit(2) + Bit(4)]

\* OctreeNode{items, aabb, code, isLeaf}
OctreeNode(items, aabb, code, isLeaf) ==
    [items |-> items, aabb |-> aabb, code |-> code, isLeaf |-> isLeaf]

NewOctreeNode(code, aabb) == OctreeNode(<<>>, aabb, code, TRUE)

\* Octree{nodes, items}
Octree(nodes, items) == [nodes |-> nodes, items |-> items]

\* o.nodes[code] = node
SetNode(nodes, code, node) == (code :> node) @@ nodes

NewOctree(aabb) == Octree(RootCode :> NewOctreeNode(RootCode, aabb), <<>>)

GetNumberOfItems(o) == Len(o.items)

GetNumberOfNodes(o) == Cardinality(DOMAIN o.nodes)

\* What Depth gives where the program panics with "invalid octree code".
InvalidCode == 0 - 1

RECURSIVE DepthFrom(_, _)
DepthFrom(code, depth) ==
    IF depth > OctreeMaxDepth THEN InvalidCode
    ELSE IF ShiftRight3(code, depth) = RootCode THEN depth
    ELSE DepthFrom(code, depth + 1)

\* node.Depth()
Depth(node) == DepthFrom(node.code, 0)

\* node.Children()
Children(node) == [octant \in 1 .. 8 |-> BitOr(ShiftLeft3(node.code), octant - 1)]

\* A canSplit that lets the leaves of the maximum depth split.
canSplitAtMaxDepth(node) == node.isLeaf /\ Depth(node) <= OctreeMaxDepth

\* node.canSplit(), where Depth does not panic.
canSplit(node) == node.isLeaf /\ Depth(node) < OctreeMaxDepth

\* node.shouldSplit()
shouldSplit(node) == canSplit(node) /\ Len(node.items) > OctreeMaxLeafItems

\* The items of an octree and its queries are interface values: the
\* dynamic type, and the vectors of the value of that type, which are
\* vectors of float64.  A triangle and a ray are given by their whole
\* coordinates.
Item(kind, value) == [kind |-> kind, value |-> value]

VectorItem(v) == Item("Vector", <<v>>)

AABBItem(a) == Item("AABB", <<a.Center, a.HalfSize>>)

TriangleItem(t) == Item("Triangle", <<Vector64(t.P), Vector64(t.Q), Vector64(t.R)>>)

RayItem(r) == Item("Ray", <<Vector64(r.Origin), Vector64(r.Direction)>>)

\* The value of an item of each type, that of a triangle and of a ray in
\* whole coordinates.
AsVector(item) == item.value[1]

AsAABB(item) == AABB(item.value[1], item.value[2])

AsTriangle(item) ==
    Triangle(WholeVector(item.value[1]), WholeVector(item.value[2]),
             WholeVector(item.value[3]))

AsRay(item) == Ray(WholeVector(item.value[1]), WholeVector(item.value[2]))

\* item.IntersectsAABB(aabb), by the item's type.
IntersectsAABB(item, aabb) ==
    CASE item.kind = "Vector" -> VectorIntersectsAABB(AsVector(item), aabb)
      [] item.kind = "AABB" -> AABBIntersectsAABB(AsAABB(item), aabb)
      [] item.kind = "Triangle" ->
            TriangleIntersectsAABB(AsTriangle(item), WholeAABB(aabb))
      [] item.kind = "Ray" -> RayIntersectsAABB(AsRay(item), WholeAABB(aabb))

\* A faulty switch, to show that the dispatch is seen: it takes every item
\* to intersect a query that is no box.
IntersectsAnyButAABB(item, query) ==
    CASE query.kind = "AABB" -> IntersectsAABB(item, AsAABB(query))
      [] OTHER -> TRUE

\* The intersection of an item and a query in Query's type switch: by the
\* query's type, and false when the item has no method for it.
Intersects(item, query) ==
    CASE query.kind = "AABB" -> IntersectsAABB(item, AsAABB(query))
      [] query.kind = "Triangle" ->
            item.kind = "Ray" /\ RayIntersectsTriangle(AsRay(item), AsTriangle(query))
      [] query.kind = "Ray" ->
            item.kind = "Triangle" /\ TriangleIntersectsRay(AsTriangle(item), AsRay(query))
      [] OTHER -> FALSE

\* The entries of a sequence.
SetOf(s) == {s[a] : a \in 1 .. Len(s)}

\* The items of node that intersect aabb, in the node's order.
ItemsIntersecting(o, node, aabb) ==
    SelectSeq(node.items, LAMBDA index : IntersectsAABB(At(o.items, index), aabb))

\* The child made of a node for the box aabb, which Split has computed:
\* a leaf of that box with the node's items that intersect it.
ChildNode(o, node, childCode, aabb) ==
    OctreeNode(ItemsIntersecting(o, node, aabb), aabb, childCode, TRUE)

\* o.nodes[childCode] = childNode, for the child of a node in an octant.
SetChild(o, node, octant) ==
    [o EXCEPT !.nodes = SetNode(@, Children(node)[octant + 1],
                                ChildNode(o, node, Children(node)[octant + 1],
                                          Octant(node.aabb, octant)))]

RECURSIVE SplitSevenChildren(_, _, _)
\* A split that makes the octants 0 to 6 only.
SplitSevenChildren(o, code, octant) ==
    IF octant >= 7 THEN o
    ELSE SplitSevenChildren(SetChild(o, o.nodes[code], octant), code, octant + 1)

RECURSIVE SplitChildren(_, _, _)
\* The loop of Split over the octants from octant on.
SplitChildren(o, code, octant) ==
    IF octant >= 8 THEN o
    ELSE SplitChildren(SetChild(o, o.nodes[code], octant), code, octant + 1)

\* o.Split(code): the error returned and the octree afterwards.  A code
\* without a node gives a nil node, which canSplit dereferences.
Split(o, code) ==
    IF code \notin DOMAIN o.nodes
    THEN [err |-> "panic", octree |-> o]
    ELSE IF o.nodes[code].isLeaf /\ Depth(o.nodes[code]) = InvalidCode
    THEN [err |-> "panic", octree |-> o]
    ELSE IF ~canSplit(o.nodes[code])
    THEN [err |-> "ErrOctreeCannotSplitNode", octree |-> o]
    ELSE [err |-> "nil",
          octree |-> [SplitChildren(o, code, 0) EXCEPT
                         !.nodes[code].items = <<>>,
                         !.nodes[code].isLeaf = FALSE]]

RECURSIVE InsertLevel(_, _, _, _)
\* The first loop of Insert over the codes of one depth, which are
\* together in its queue: found.codes collects the leaves the item
\* intersects, found.queue the children appended to the queue.
InsertLevel(o, item, queue, found) ==
    IF queue = <<>> THEN found
    ELSE LET node == o.nodes[Head(queue)]
         IN  IF ~IntersectsAABB(item, node.aabb)
             THEN InsertLevel(o, item, Tail(queue), found)
             ELSE IF node.isLeaf
             THEN InsertLevel(o, item, Tail(queue),
                              [found EXCEPT !.codes = Append(@, Head(queue))])
             ELSE InsertLevel(o, item, Tail(queue),
                              [found EXCEPT !.queue = @ \o Children(node)])

RECURSIVE InsertCodes(_, _, _)
\* The first loop of Insert: the codes of the leaves the item intersects,
\* found from the root through the nodes the item intersects, one depth of
\* the queue after the other.  found holds the codes collected and the
\* queue left.
InsertCodes(o, item, found) ==
    IF found.queue = <<>> THEN found.codes
    ELSE InsertCodes(o, item,
                     InsertLevel(o, item, found.queue,
                                 [codes |-> found.codes, queue |-> <<>>]))

RECURSIVE InsertIndex(_, _, _, _)
RECURSIVE InsertSplit(_, _, _, _)
\* The second loop of Insert after a leaf was split: result is what Split
\* returned and the octree it left.
InsertSplit(result, codes, index, splits) ==
    InsertIndex(result.octree, Tail(codes), index, Append(splits, result.err))

\* The second loop of Insert once the index is appended to the leaf of
\* the first code: the leaf is split when it should be.
InsertAppended(appended, codes, index, splits) ==
    IF shouldSplit(appended.nodes[Head(codes)])
    THEN InsertSplit(Split(appended, Head(codes)), codes, index, splits)
    ELSE InsertIndex(appended, Tail(codes), index, splits)

\* The second loop of Insert: the index appended to each leaf found, the
\* leaf split when it should be.  splits collects what the calls of Split
\* returned, which Insert drops.
InsertIndex(o, codes, index, splits) ==
    IF codes = <<>> THEN [err |-> "nil", octree |-> o, splits |-> splits]
    ELSE InsertAppended([o EXCEPT !.nodes[Head(codes)].items = Append(@, index)],
                        codes, index, splits)

\* Insert once its first loop has found the codes of the leaves.
InsertAt(o, item, codes) ==
    IF Len(codes) = 0
    THEN [err |-> "ErrOctreeItemNotInserted", octree |-> o, splits |-> <<>>]
    ELSE InsertIndex([o EXCEPT !.items = Append(@, item)], codes, Len(o.items), <<>>)

\* o.Insert(item): the error returned, the octree afterwards and the
\* results of the splits made.
Insert(o, item) ==
    InsertAt(o, item, InsertCodes(o, item, [codes |-> <<>>, queue |-> <<RootCode>>]))

\* The scan of one leaf in Query: the indices not yet cached whose items
\* intersect the query, in the leaf's order.  An index is cached when it is
\* appended, and a leaf holds no index twice.
QueryLeaf(o, query, node, cache) ==
    SelectSeq(node.items,
              LAMBDA index : index \notin cache /\ Intersects(At(o.items, index), query))

RECURSIVE QueryLevel(_, _, _, _)
\* The loop of Query over the codes of one depth, which are together in
\* its queue: found.items collects the result, found.queue the children
\* appended to the queue.
QueryLevel(o, query, queue, found) ==
    IF queue = <<>> THEN found
    ELSE LET node == o.nodes[Head(queue)]
             hits == QueryLeaf(o, query, node, SetOf(found.items))
         IN  IF ~IntersectsAABB(query, node.aabb)
             THEN QueryLevel(o, query, Tail(queue), found)
             ELSE IF node.isLeaf
             THEN QueryLevel(o, query, Tail(queue),
                             [found EXCEPT !.items = @ \o hits])
             ELSE QueryLevel(o, query, Tail(queue),
                             [found EXCEPT !.queue = @ \o Children(node)])

RECURSIVE QueryNodes(_, _, _)
\* The loop of Query, one depth of the queue after the other: found holds
\* the items collected and the queue left.
QueryNodes(o, query, found) ==
    IF found.queue = <<>> THEN found.items
    ELSE QueryNodes(o, query,
                    QueryLevel(o, query, found.queue,
                               [items |-> found.items, queue |-> <<>>]))

\* o.Query(query)
Query(o, query) == QueryNodes(o, query, [items |-> <<>>, queue |-> <<RootCode>>])

----------------------------------------------------------------------------
\* The octree's state machine.

\* The root boxes.  The first is centred at the origin, its half size a
\* power of two: its octants down to the deepest level have whole
\* coordinates.  The second lies next to 1 and is a few units in the last
\* place wide: the centres and the bounds of its octants are rounded.
RootHalfSize == 2 ^ OctreeMaxDepth

RootAABB == AABB64(ZeroVector, <<RootHalfSize, RootHalfSize, RootHalfSize>>)

\* The float64 k * 2^-52 and 1 + k * 2^-52, for a small k: 2^-52 is the
\* distance from 1 to the next float64.
UnitsInLastPlace(k) == Number(1, NatOf(k), 1 - MantissaBits)

UnitsAboveOne(k) ==
    Number(1, NatAdd(NatShiftLeft(<<1>>, MantissaBits - 1), NatOf(k)), 1 - MantissaBits)

RoundingRootAABB ==
    AABB(<<UnitsAboveOne(3), UnitsAboveOne(3), UnitsAboveOne(3)>>,
         <<UnitsInLastPlace(6), UnitsInLastPlace(6), UnitsInLastPlace(6)>>)

RootChoices == {RootAABB, RoundingRootAABB}

\* The item inserted over and over to fill a leaf: a point next to the
\* first root's upper corner, in octant 7 of every box on the way to that
\* corner.
Filler ==
    VectorItem(Vector64(<<RootHalfSize - 1, RootHalfSize - 1, RootHalfSize - 1>>))

\* A triangle in the plane z = 1 with its normal along +z, and the same
\* triangle wound the other way.
UpTriangle == Triangle(<<0, 0, 1>>, <<4, 0, 1>>, <<0, 4, 1>>)

DownTriangle == Triangle(<<0, 0, 1>>, <<0, 4, 1>>, <<4, 0, 1>>)

\* The items inserted in the tree of the first root: points next to the
\* root's corner, at its centre and outside it, a box that reaches beyond
\* the root, a triangle, and rays along z through the root's centre and
\* beside it.
ItemChoices ==
    {Filler,
     VectorItem(Vector64(ZeroVector)),
     VectorItem(Vector64(<<RootHalfSize + 1, 0, 0>>)),
     AABBItem(AABB64(<<RootHalfSize, 0, 0>>, <<2, 2, 2>>)),
     TriangleItem(UpTriangle),
     RayItem(Ray(<<0, 0, 0 - 1>>, <<0, 0, 1>>)),
     RayItem(Ray(<<1, 1, 0 - 1>>, <<0, 0, 1>>))}

\* The items inserted in the tree of the second root: the point one unit in
\* the last place beyond the middle of the root along x and three units
\* below it along y and z, the root's centre, and a point outside the root.
RoundingItemChoices ==
    {VectorItem(<<UnitsAboveOne(4), UnitsAboveOne(0), UnitsAboveOne(0)>>),
     VectorItem(RoundingRootAABB.Center),
     VectorItem(Vector64(ZeroVector))}

\* The items of the tree o, by its root.
ItemChoicesOf(o) ==
    IF o.nodes[RootCode].aabb = RootAABB THEN ItemChoices ELSE RoundingItemChoices

\* The queries of the tree of the first root: boxes near the origin and at
\* the root's corner, a box outside the root that meets the box reaching
\* beyond it, rays down the z axis and beside it, a triangle, and a point,
\* which can be handed to Query as it has IntersectsAABB and for which
\* Query's switch has no case.
QueryChoices ==
    {AABBItem(AABB64(<<1, 1, 1>>, <<1, 1, 1>>)),
     AABBItem(AABB(AsVector(Filler), Vector64(<<1, 1, 1>>))),
     AABBItem(AABB64(<<RootHalfSize + 2, 0, 0>>, <<1, 1, 1>>)),
     RayItem(Ray(<<1, 1, 3>>, <<0, 0, 0 - 1>>)),
     RayItem(Ray(<<0, 0, 3>>, <<0, 0, 0 - 1>>)),
     TriangleItem(DownTriangle),
     VectorItem(Vector64(ZeroVector))}

\* The queries of the tree of the second root: the root's lowest octant,
\* and a point.
RoundingQueryChoices ==
    {AABBItem(Octant(RoundingRootAABB, 0)),
     VectorItem(RoundingRootAABB.Center)}

\* The queries of the tree o, by its root.
QueryChoicesOf(o) ==
    IF o.nodes[RootCode].aabb = RootAABB THEN QueryChoices ELSE RoundingQueryChoices

\* The number of splits that made the tree: each adds eight nodes.
Splits(o) == (GetNumberOfNodes(o) - 1) \div 8

\* The items an Insert may be given: any of the tree's choices while it
\* holds fewer than MaxItems, or than MaxDeepItems after more than MaxSplits
\* splits; then, in a tree of at most MaxFillSplits splits, the filler until
\* a leaf has held more than OctreeMaxLeafItems.
InsertChoices(o) ==
    IF GetNumberOfItems(o) < (IF Splits(o) <= MaxSplits THEN MaxItems ELSE MaxDeepItems)
    THEN ItemChoicesOf(o)
    ELSE IF /\ GetNumberOfItems(o) >= MaxItems
            /\ GetNumberOfItems(o) < OctreeMaxLeafItems + MaxItems
            /\ Splits(o) <= MaxFillSplits
    THEN {Filler} \cap ItemChoicesOf(o)
    ELSE {}

RECURSIVE ChainLeaf(_, _)
\* The leaf on the way from the node with a code to the root's upper
\* corner, through octant 7 of every node.
ChainLeaf(o, code) ==
    IF o.nodes[code].isLeaf THEN code
    ELSE ChainLeaf(o, BitOr(ShiftLeft3(code), 7))

\* The codes a Split may be given: that of the leaf on the way to the
\* corner, of its parent (0 for the root), of its octant 0, and of octant 0
\* of the root.
SplitChoices(o) ==
    LET leaf == ChainLeaf(o, RootCode)
    IN  {leaf, ShiftRight3(leaf, 1), BitOr(ShiftLeft3(leaf), 0),
         BitOr(ShiftLeft3(RootCode), 0)}

OctreeInit ==
    /\ source = NoSource
    /\ err = "nil"
    /\ mesh = EmptyMesh
    /\ \E aabb \in RootChoices :
          /\ octree = NewOctree(aabb)
          /\ call = [op |-> "NewOctree", aabb |-> aabb]
    /\ writer = NoWriter
    /\ old = NoOctree
    /\ ret = <<>>
    /\ ncalls = 0

\* A call is made on the octree after its construction and after a call
\* that changed it.  After a call that left it as it was, the calls that
\* can follow are those that could be made in its place, and lead to the
\* same states.
CanCallOctree == err # "panic" /\ (call.op = "NewOctree" \/ octree # old)

\* err := o.Insert(item)
DoInsert ==
    /\ CanCallOctree
    /\ \E item \in InsertChoices(octree) :
          \E result \in {Insert(octree, item)} :
              /\ octree' = result.octree
              /\ err' = result.err
              /\ ret' = result.splits
              /\ call' = [op |-> "Insert", item |-> item]
    /\ old' = octree
    /\ UNCHANGED <<source, mesh, writer, ncalls>>

\* err := o.Split(code), on a tree of few items, of at most MaxDeepItems
\* once it has been split MaxSplits times.
DoSplit ==
    /\ CanCallOctree
    /\ GetNumberOfItems(octree) <= (IF Splits(octree) < MaxSplits THEN MaxItems ELSE MaxDeepItems)
    /\ \E code \in SplitChoices(octree) :
          \E result \in {Split(octree, code)} :
              /\ octree' = result.octree
              /\ err' = result.err
              /\ call' = [op |-> "Split", code |-> code]
    /\ ret' = <<>>
    /\ old' = octree
    /\ UNCHANGED <<source, mesh, writer, ncalls>>

\* items := o.Query(query), on a tree of few items or on one filled.
DoQuery ==
    /\ CanCallOctree
    /\ \/ GetNumberOfItems(octree) <= MaxItems
       \/ GetNumberOfItems(octree) > OctreeMaxLeafItems
    /\ \E query \in QueryChoicesOf(octree) :
          /\ ret' = Query(octree, query)
          /\ call' = [op |-> "Query", query |-> query]
    /\ err' = "nil"
    /\ old' = octree
    /\ UNCHANGED <<source, mesh, octree, writer, ncalls>>

OctreeNext ==
    \/ DoInsert
    \/ DoSplit
    \/ DoQuery

SpecOctree == OctreeInit /\ [][OctreeNext]_vars

-----------------------------------------------------------------------------
\* The OBJ writer.  What is written is kept as the sequence of the lines
\* written, each with its first word and its text: the text is built as
\* the program builds it, and no text written holds a line break but at a
\* line's end.

Line(kind, text) == [kind |-> kind, text |-> text]

\* fmt.Sprintf("%f", x) of a whole number x.
FormatFloat(x) == ToString(x) \o ".000000"

\* fmt.Sprintf("v %f %f %f\n", vertex[0], vertex[1], vertex[2])
VertexLine(vertex) ==
    Line("v", "v " \o FormatFloat(vertex[1]) \o " " \o FormatFloat(vertex[2])
                   \o " " \o FormatFloat(vertex[3]) \o "\n")

\* fmt.Sprintf("g %s\n", name)
PatchLine(name) == Line("g", "g " \o name \o "\n")

\* The entries " %d" of the vertices of a face, each vertex+1.
RECURSIVE FaceEntries(_, _)
FaceEntries(face, k) ==
    IF k > Len(face) THEN ""
    ELSE " " \o ToString(face[k] + 1) \o FaceEntries(face, k + 1)

\* "f", the entries of the face and "\n".
FaceLine(face) == Line("f", "f" \o FaceEntries(face, 1) \o "\n")

\* OBJWriter{writer, vertices, faces, facePatches, patches}; the writer
\* field is what has been written to the io.Writer.
OBJWriter(written, vertices, faces, facePatches, patches) ==
    [writer |-> written, vertices |-> vertices, faces |-> faces,
     facePatches |-> facePatches, patches |-> patches]

NewOBJWriter == OBJWriter(<<>>, <<>>, <<>>, <<>>, <<>>)

SetVertices(w, vertices) == [w EXCEPT !.vertices = vertices]

SetFaces(w, faces) == [w EXCEPT !.faces = faces]

SetFacePatches(w, facePatches) == [w EXCEPT !.facePatches = facePatches]

SetPatches(w, patches) == [w EXCEPT !.patches = patches]

\* patchFaces[patch] of Write: the faces i with facePatches[i] = patch, in
\* the order of i.
PatchFaces(w, patch) ==
    SelectSeq([k \in 1 .. Len(w.facePatches) |-> k - 1],
              LAMBDA i : At(w.facePatches, i) = patch)

\* The lines of the faces of a patch.
PatchFaceLines(w, patch) ==
    LET faces == PatchFaces(w, patch)
    IN  [k \in 1 .. Len(faces) |-> FaceLine(At(w.faces, faces[k]))]

\* The lines of the patches from a patch on: "g" and the patch's faces.
RECURSIVE PatchLines(_, _)
PatchLines(w, patch) ==
    IF patch >= Len(w.patches) THEN <<>>
    ELSE <<PatchLine(At(w.patches, patch))>> \o PatchFaceLines(w, patch)
             \o PatchLines(w, patch + 1)

\* Write reads w.faces[face] for a face of a patch written: the program
\* panics where such a face is none of the faces set.
WritePanics(w) ==
    \E i \in Indices(w.facePatches) :
        /\ At(w.facePatches, i) \in Indices(w.patches)
        /\ i \notin Indices(w.faces)

\* w.Write(): the error, and the writer after it.  What a Write that
\* panics has buffered is not flushed.
Write(w) ==
    IF WritePanics(w) THEN [err |-> "panic", writer |-> w]
    ELSE [err |-> "nil",
          writer |-> [w EXCEPT !.writer =
                         @ \o [k \in 1 .. Len(w.vertices) |-> VertexLine(w.vertices[k])]
                           \o PatchLines(w, 0)]]

-----------------------------------------------------------------------------
\* The writer's state machine: a writer is made, its setters are called
\* with data from small sets and it writes.

VerticesChoices ==
    {<<>>,
     <<<<0, 0, 0>>, <<0, 1, 0>>, <<1, 1, 0>>>>,
     <<<<0, 0, 0>>, <<0, 1, 0>>, <<1, 1, 0>>, <<0 - 1, 0, 2>>>>}

FacesChoices ==
    {<<>>, <<<<0, 1, 2>>>>, <<<<0, 1, 2>>, <<0, 2, 3>>>>}

FacePatchesChoices ==
    {<<>>, <<0>>, <<0 - 1>>, <<0, 0>>, <<1, 0>>, <<0, 0 - 1>>}

PatchesChoices == {<<>>, <<"a">>, <<"a", "b">>}

WriterInit ==
    /\ source = NoSource
    /\ err = "nil"
    /\ mesh = EmptyMesh
    /\ octree = NoOctree
    /\ writer = NewOBJWriter
    /\ old = NoWriter
    /\ call = [op |-> "NewOBJWriter"]
    /\ ret = <<>>
    /\ ncalls = 0

\* A writer is called while it has not panicked and has written few lines.
CanCallWriter == err # "panic" /\ Len(writer.writer) <= MaxWritten

DoSetVertices ==
    /\ CanCallWriter
    /\ \E vertices \in VerticesChoices :
          /\ writer' = SetVertices(writer, vertices)
          /\ call' = [op |-> "SetVertices"]
    /\ old' = writer
    /\ err' = "nil"
    /\ UNCHANGED <<source, mesh, octree, ret, ncalls>>

DoSetFaces ==
    /\ CanCallWriter
    /\ \E faces \in FacesChoices :
          /\ writer' = SetFaces(writer, faces)
          /\ call' = [op |-> "SetFaces"]
    /\ old' = writer
    /\ err' = "nil"
    /\ UNCHANGED <<source, mesh, octree, ret, ncalls>>

DoSetFacePatches ==
    /\ CanCallWriter
    /\ \E facePatches \in FacePatchesChoices :
          /\ writer' = SetFacePatches(writer, facePatches)
          /\ call' = [op |-> "SetFacePatches"]
    /\ old' = writer
    /\ err' = "nil"
    /\ UNCHANGED <<source, mesh, octree, ret, ncalls>>

DoSetPatches ==
    /\ CanCallWriter
    /\ \E patches \in PatchesChoices :
          /\ writer' = SetPatches(writer, patches)
          /\ call' = [op |-> "SetPatches"]
    /\ old' = writer
    /\ err' = "nil"
    /\ UNCHANGED <<source, mesh, octree, ret, ncalls>>

DoWrite ==
    /\ CanCallWriter
    /\ LET result == Write(writer)
       IN  /\ writer' = result.writer
           /\ err' = result.err
    /\ old' = writer
    /\ call' = [op |-> "Write"]
    /\ UNCHANGED <<source, mesh, octree, ret, ncalls>>

WriterNext ==
    \/ DoSetVertices
    \/ DoSetFaces
    \/ DoSetFacePatches
    \/ DoSetPatches
    \/ DoWrite

SpecWriter == WriterInit /\ [][WriterNext]_vars

-----------------------------------------------------------------------------
\* Rays against triangles: the calls of TestTriangleIntersectsRayHit,
\* HitCulled and Miss with all lengths doubled, which makes the coordinates
\* whole numbers, rays that meet that plane from the other side and from
\* beyond it, and a ray and a triangle of large coordinates that lie in one
\* plane.

SquareCorners == {<<0, 0, 4>>, <<0, 2, 4>>, <<2, 2, 4>>, <<2, 0, 4>>}

FarRay == Ray(<<49522761, -20554806, -1820637>>, <<0, -1, -1>>)

FarTriangle ==
    Triangle(<<49522761, -15931095, 2803074>>,
             <<218661594, -202876885, -1613245>>,
             <<105902372, -80219970, -642644>>)

\* The triangle of the reversed winding.
Reversed(t) == Triangle(t.P, t.R, t.Q)

RayChoices ==
    {Ray(<<1, 1, 0>>, <<0, 0, 1>>), Ray(<<1, 1, 0>>, <<0, 0, -1>>),
     Ray(<<1, 1, 8>>, <<0, 0, -1>>), Ray(<<1, 1, 8>>, <<0, 0, 1>>),
     Ray(<<3, 1, 0>>, <<0, 0, 1>>), Ray(<<1, 1, 0>>, <<0, 1, 2>>), FarRay}

TriangleChoices ==
    {Triangle(<<0, 0, 4>>, q, r) : <<q, r>> \in
        {c \in SquareCorners \X SquareCorners :
            Cardinality({<<0, 0, 4>>, c[1], c[2]}) = 3}}
    \cup {FarTriangle, Reversed(FarTriangle)}

RayInit ==
    /\ source = NoSource
    /\ err = "nil"
    /\ mesh = EmptyMesh
    /\ octree = NoOctree
    /\ writer = NoWriter
    /\ old = <<>>
    /\ call = [op |-> "NewRay"]
    /\ ret = <<>>
    /\ ncalls = 0

DoRayIntersectsTriangle ==
    /\ \E r \in RayChoices, query \in TriangleChoices :
          /\ call' = [op |-> "Ray.IntersectsTriangle", ray |-> r, triangle |-> query]
          /\ ret' = RayIntersectsTriangle(r, query)
    /\ UNCHANGED <<source, err, mesh, octree, writer, old, ncalls>>

DoTriangleIntersectsRay ==
    /\ \E t \in TriangleChoices, query \in RayChoices :
          /\ call' = [op |-> "Triangle.IntersectsRay", ray |-> query, triangle |-> t]
          /\ ret' = TriangleIntersectsRay(t, query)
    /\ UNCHANGED <<source, err, mesh, octree, writer, old, ncalls>>

RayNext ==
    \/ DoRayIntersectsTriangle
    \/ DoTriangleIntersectsRay

SpecRay == RayInit /\ [][RayNext]_vars

-----------------------------------------------------------------------------
\* The octree of the package that imports meshx by its first name.  It is
\* built and filled as the one above; its Split ends with clear(node.items),
\* which sets every entry of the parent's list to zero and leaves the list
\* as long as it was, and it has no Query yet.

\* clear(items) of a slice of indices.
ClearedItems(items) == [i \in 1 .. Len(items) |-> 0]

\* o.Split(code) ending with clear(node.items).
SplitClear(o, code) ==
    IF code \notin DOMAIN o.nodes
    THEN [err |-> "panic", octree |-> o]
    ELSE IF o.nodes[code].isLeaf /\ Depth(o.nodes[code]) = InvalidCode
    THEN [err |-> "panic", octree |-> o]
    ELSE IF ~canSplit(o.nodes[code])
    THEN [err |-> "ErrOctreeCannotSplitNode", octree |-> o]
    ELSE [err |-> "nil",
          octree |-> [SplitChildren(o, code, 0) EXCEPT
                         !.nodes[code].items = ClearedItems(@),
                         !.nodes[code].isLeaf = FALSE]]

RECURSIVE InsertIndexClear(_, _, _, _)
RECURSIVE InsertSplitClear(_, _, _, _)
\* The second loop of Insert, with the Split that clears: as InsertSplit,
\* InsertAppended and InsertIndex.
InsertSplitClear(result, codes, index, splits) ==
    InsertIndexClear(result.octree, Tail(codes), index, Append(splits, result.err))

InsertAppendedClear(appended, codes, index, splits) ==
    IF shouldSplit(appended.nodes[Head(codes)])
    THEN InsertSplitClear(SplitClear(appended, Head(codes)), codes, index, splits)
    ELSE InsertIndexClear(appended, Tail(codes), index, splits)

InsertIndexClear(o, codes, index, splits) ==
    IF codes = <<>> THEN [err |-> "nil", octree |-> o, splits |-> splits]
    ELSE InsertAppendedClear([o EXCEPT !.nodes[Head(codes)].items = Append(@, index)],
                             codes, index, splits)

InsertAtClear(o, item, codes) ==
    IF Len(codes) = 0
    THEN [err |-> "ErrOctreeItemNotInserted", octree |-> o, splits |-> <<>>]
    ELSE InsertIndexClear([o EXCEPT !.items = Append(@, item)], codes, Len(o.items), <<>>)

\* o.Insert(item), with the Split that clears.
InsertClear(o, item) ==
    InsertAtClear(o, item, InsertCodes(o, item, [codes |-> <<>>, queue |-> <<RootCode>>]))

\* err := o.Insert(item)
DoInsertClear ==
    /\ CanCallOctree
    /\ \E item \in InsertChoices(octree) :
          \E result \in {InsertClear(octree, item)} :
              /\ octree' = result.octree
              /\ err' = result.err
              /\ ret' = result.splits
              /\ call' = [op |-> "Insert", item |-> item]
    /\ old' = octree
    /\ UNCHANGED <<source, mesh, writer, ncalls>>

\* err := o.Split(code)
DoSplitClear ==
    /\ CanCallOctree
    /\ GetNumberOfItems(octree) <= (IF Splits(octree) < MaxSplits THEN MaxItems ELSE MaxDeepItems)
    /\ \E code \in SplitChoices(octree) :
          \E result \in {SplitClear(octree, code)} :
              /\ octree' = result.octree
              /\ err' = result.err
              /\ call' = [op |-> "Split", code |-> code]
    /\ ret' = <<>>
    /\ old' = octree
    /\ UNCHANGED <<source, mesh, writer, ncalls>>

OctreeClearNext ==
    \/ DoInsertClear
    \/ DoSplitClear

SpecOctreeClear == OctreeInit /\ [][OctreeClearNext]_vars

\* The indices Query tests in one leaf, in the leaf's order: those whose
\* cache entry is not set, which it is for the indices appended to the
\* result only.
QueryLeafTests(node, cache) ==
    SelectSeq(node.items, LAMBDA index : index \notin cache)

RECURSIVE QueryLevelTests(_, _, _, _)
\* The loop of Query over the codes of one depth, as QueryLevel, with
\* found.tests the indices tested against the query, in the order of the
\* tests.
QueryLevelTests(o, query, queue, found) ==
    IF queue = <<>> THEN found
    ELSE LET node == o.nodes[Head(queue)]
             hits == QueryLeaf(o, query, node, SetOf(found.items))
             tests == QueryLeafTests(node, SetOf(found.items))
         IN  IF ~IntersectsAABB(query, node.aabb)
             THEN QueryLevelTests(o, query, Tail(queue), found)
             ELSE IF node.isLeaf
             THEN QueryLevelTests(o, query, Tail(queue),
                                  [found EXCEPT !.items = @ \o hits, !.tests = @ \o tests])
             ELSE QueryLevelTests(o, query, Tail(queue),
                                  [found EXCEPT !.queue = @ \o Children(node)])

RECURSIVE QueryNodesTests(_, _, _, _)
\* The loop of Query, one depth of the queue after the other, with the
\* tests made.
QueryNodesTests(o, query, queue, found) ==
    IF queue = <<>> THEN found
    ELSE QueryNodesTests(o, query,
                         QueryLevelTests(o, query, queue, [found EXCEPT !.queue = <<>>]).queue,
                         QueryLevelTests(o, query, queue, [found EXCEPT !.queue = <<>>]))

\* The indices tested by o.Query(query), in the order of the tests.
QueryTests(o, query) ==
    QueryNodesTests(o, query, <<RootCode>>,
                    [items |-> <<>>, queue |-> <<>>, tests |-> <<>>]).tests

-----------------------------------------------------------------------------
\* AABB.Octant, for boxes of any centre and half size.

\* A float64 so large that the next one is two away: 2^53.
Big64 == Number(1, <<1>>, MantissaBits)

\* The octants Octant panics on.
OctantOutOfRange(octant) == octant < 0 \/ octant >= 8

\* The boxes of the model: centres of small whole numbers and of 2^53, half
\* sizes of small whole numbers.
CenterChoices ==
    {<<x, y, Float64(1)>> : x \in {Float64(0), Float64(5), Float64(0 - 6), Big64},
                            y \in {Float64(0), Negated(Big64)}}

HalfSizeChoices == {Vector64(<<2, 2, 2>>), Vector64(<<4, 2, 1>>)}

\* The octants asked for: those in range, and one out of range on either
\* side.
OctantChoices == (0 - 1) .. 8

\* a := NewAABB(center, halfSize)
AABBInit ==
    /\ source = NoSource
    /\ err = "nil"
    /\ mesh = EmptyMesh
    /\ octree = NoOctree
    /\ writer = NoWriter
    /\ old = <<>>
    /\ \E center \in CenterChoices, halfSize \in HalfSizeChoices :
          call = [op |-> "NewAABB", aabb |-> AABB(center, halfSize)]
    /\ ret = <<>>
    /\ ncalls = 0

\* a.Octant(octant), which panics for an octant out of range.
DoOctant ==
    /\ call.op = "NewAABB"
    /\ \E octant \in OctantChoices :
          /\ call' = [op |-> "Octant", aabb |-> call.aabb, octant |-> octant]
          /\ err' = IF OctantOutOfRange(octant) THEN "panic" ELSE "nil"
          /\ ret' = IF OctantOutOfRange(octant) THEN <<>> ELSE Octant(call.aabb, octant)
    /\ UNCHANGED <<source, mesh, octree, writer, old, ncalls>>

AABBNext == DoOctant

SpecAABB == AABBInit /\ [][AABBNext]_vars

----------------------------------------------------------------------------
\* Notions the properties are stated in.

\* The undirected vertex pair half edge k spans.
EdgeOf(m, k) ==
    {GetHalfEdge(m, k).Origin, GetHalfEdge(m, GetHalfEdge(m, k).Next).Origin}

\* The faces of S given the other winding, every shared edge of m is
\* traversed in opposite directions by its two half edges.
ConsistentWith(m, S) ==
    \A k \in Indices(m.halfEdges) :
        LET h == GetHalfEdge(m, k)
        IN  ~IsBoundary(h) =>
               LET t    == GetHalfEdge(m, h.Twin)
                   same == (h.Origin = t.Origin)
               IN  same = ((h.Face \in S) # (t.Face \in S))

\* Some choice of windings makes every component of m consistent.
Orientable(m) == \E S \in SUBSET Indices(m.faces) : ConsistentWith(m, S)

\* The undirected edge from entry j of face f to the next entry, cyclically.
FaceEdge(f, j) == {f[j], f[(j % Len(f)) + 1]}

\* The number of face edges of the source on the undirected edge e.
EdgeUse(src, e) ==
    Cardinality({<<i, j>> \in (1 .. Len(src.faces)) \X (1 .. FaceDegree) :
                    j <= Len(src.faces[i]) /\ FaceEdge(src.faces[i], j) = e})

SourceEdges(src) ==
    UNION {{FaceEdge(src.faces[i], j) : j \in 1 .. Len(src.faces[i])} :
              i \in 1 .. Len(src.faces)}

\* Every edge of the source is used by exactly two face edges.
Manifold(src) == \A e \in SourceEdges(src) : EdgeUse(src, e) = 2

\* The links of the half edges of m: twins are mutual and distinct, next
\* and prev are inverse, and next stays in the face.
WellLinked(m) ==
    \A k \in Indices(m.halfEdges) :
        LET h == GetHalfEdge(m, k)
        IN  /\ \/ h.Twin = -1
               \/ /\ h.Twin \in Indices(m.halfEdges)
                  /\ GetHalfEdge(m, h.Twin).Twin = k
                  /\ h.Twin # k
            /\ h.Next \in Indices(m.halfEdges)
            /\ h.Prev \in Indices(m.halfEdges)
            /\ GetHalfEdge(m, h.Prev).Next = k
            /\ GetHalfEdge(m, h.Next).Prev = k
            /\ h.Face = GetHalfEdge(m, h.Next).Face

\* s without the entries that occurred before in it.
RECURSIVE Distinct(_, _)
Distinct(s, acc) ==
    IF s = <<>> THEN acc
    ELSE Distinct(Tail(s), IF \E a \in 1 .. Len(acc) : acc[a] = Head(s)
                           THEN acc ELSE Append(acc, Head(s)))

\* The 0-based place of x in s.
PlaceOf(s, x) == (CHOOSE a \in 1 .. Len(s) : s[a] = x) - 1

Occurs(s, x) == \E a \in 1 .. Len(s) : s[a] = x

\* The half edges of the faces F of m, and the vertices they start at, in
\* the order in which a scan of F meets them.
RECURSIVE HalfEdgesMet(_, _, _)
HalfEdgesMet(m, F, acc) ==
    IF F = <<>> THEN Distinct(acc, <<>>)
    ELSE HalfEdgesMet(m, Tail(F), acc \o GetFaceHalfEdges(m, Head(F)))

RECURSIVE VerticesMet(_, _, _)
VerticesMet(m, F, acc) ==
    IF F = <<>> THEN Distinct(acc, <<>>)
    ELSE VerticesMet(m, Tail(F), acc \o GetFaceVertices(m, Head(F)))

\* The patches (not -1) of the faces F of m, in the order met.
RECURSIVE PatchesMet(_, _, _)
PatchesMet(m, F, acc) ==
    IF F = <<>> THEN Distinct(acc, <<>>)
    ELSE PatchesMet(m, Tail(F),
                    IF GetFace(m, Head(F)).Patch # -1
                    THEN Append(acc, GetFace(m, Head(F)).Patch) ELSE acc)

\* The points of the vertices of face f of m, from the face's half edge on.
RECURSIVE PointsOf(_, _, _)
PointsOf(m, vertices, acc) ==
    IF vertices = <<>> THEN acc
    ELSE PointsOf(m, Tail(vertices), Append(acc, At(m.vertices, Head(vertices)).Point))

FacePoints(m, f) == PointsOf(m, GetFaceVertices(m, f), <<>>)

\* Faces f and g of m share an edge: a half edge of one has its twin in the
\* other.
Adjacent(m, f, g) ==
    \E k \in Indices(m.halfEdges) :
        LET h == GetHalfEdge(m, k)
        IN  h.Face = f /\ ~IsBoundary(h) /\ GetHalfEdge(m, h.Twin).Face = g

\* The faces a chain of adjacent faces joins to the faces of S.
RECURSIVE Connected(_, _)
Connected(m, S) ==
    LET T == S \cup {g \in Indices(m.faces) : \E f \in S : Adjacent(m, f, g)}
    IN  IF T = S THEN S ELSE Connected(m, T)

----------------------------------------------------------------------------
\* The properties.

\* C1: after Orient() on a mesh as NewHalfEdgeMesh built it, whose
\* components are orientable, no half edge has the origin of its twin:
\* IsConsistent() is true.
C1_OrientMakesConsistent ==
    (call.op = "Orient" /\ ncalls = 1 /\ Manifold(source) /\ Orientable(old))
        => IsConsistent(mesh)

\* C2: in the mesh NewHalfEdgeMesh returned without error, and after any
\* calls of Orient, Merge and Translate on it, every half edge h has
\* twin(h) = -1 or twin(twin(h)) = h with twin(h) # h, has
\* next(prev(h)) = h = prev(next(h)), and face(h) = face(next(h)).
C2_HalfEdgesWellLinked == err = "nil" => WellLinked(mesh)

\* C2 is met where Orient flipped a face of a mesh that an earlier Merge
\* had enlarged.
C2_Witness ==
    /\ call.op = "Orient"
    /\ mesh # old
    /\ GetNumberOfFaces(mesh) > Len(source.faces)

\* C3: NewHalfEdgeMesh returns a mesh only if every undirected edge of the
\* source is used by at most two face edges.
C3_MeshOnlyIfManifold ==
    err = "nil" => \A e \in SourceEdges(source) : EdgeUse(source, e) <= 2

\* C4: in a mesh reached from NewHalfEdgeMesh by Orient, twin half edges
\* span the same undirected vertex pair.
C4_TwinsSpanSameEdge ==
    (err = "nil" /\ (ncalls = 0 \/ (ncalls = 1 /\ call.op = "Orient"))) =>
        \A k \in Indices(mesh.halfEdges) :
            ~IsBoundary(GetHalfEdge(mesh, k)) =>
                EdgeOf(mesh, k) = EdgeOf(mesh, GetHalfEdge(mesh, k).Twin)

\* C5: a half edge of Extract(F) that is the image of half edge h of m has
\* as its twin the image of twin(h) when twin(h) lies in a face of F, and
\* -1 otherwise; so twins are mutual in the extracted mesh.
C5_ExtractTwins ==
    call.op = "Extract" =>
        LET met == HalfEdgesMet(old, call.faces, <<>>)
        IN  /\ Len(ret.halfEdges) = Len(met)
            /\ \A j \in 1 .. Len(met) :
                  LET twin == GetHalfEdge(old, met[j]).Twin
                  IN  ret.halfEdges[j].Twin =
                          IF twin # -1 /\ Occurs(met, twin)
                          THEN PlaceOf(met, twin) ELSE -1
            /\ \A j \in Indices(ret.halfEdges) :
                  LET twin == GetHalfEdge(ret, j).Twin
                  IN  twin = -1 \/ GetHalfEdge(ret, twin).Twin = j

\* C6: a face of F with patch -1 in m has patch -1 in Extract(F); a face
\* with a patch p >= 0 has the dense new index of p, and the patch entry
\* there has the name of p.
C6_ExtractPatches ==
    call.op = "Extract" =>
        LET met == PatchesMet(old, call.faces, <<>>)
        IN  \A i \in 1 .. Len(call.faces) :
               LET p == GetFace(old, call.faces[i]).Patch
                   q == ret.faces[i].Patch
               IN  IF p = -1 THEN q = -1
                   ELSE /\ q = PlaceOf(met, p)
                        /\ q \in Indices(ret.patches)
                        /\ At(ret.patches, q) = At(old.patches, p)

C8_MergeAppends ==
    call.op = "Merge" =>
        LET n  == call.n
            ov == GetNumberOfVertices(old)
            of == GetNumberOfFaces(old)
            oh == GetNumberOfHalfEdges(old)
            op == GetNumberOfPatches(old)
        IN  /\ GetNumberOfVertices(mesh) = ov + GetNumberOfVertices(n)
            /\ GetNumberOfFaces(mesh) = of + GetNumberOfFaces(n)
            /\ GetNumberOfHalfEdges(mesh) = oh + GetNumberOfHalfEdges(n)
            /\ GetNumberOfPatches(mesh) = op + GetNumberOfPatches(n)
            /\ SubSeq(mesh.vertices, 1, ov) = old.vertices
            /\ SubSeq(mesh.faces, 1, of) = old.faces
            /\ SubSeq(mesh.halfEdges, 1, oh) = old.halfEdges
            /\ SubSeq(mesh.patches, 1, op) = old.patches
            /\ \A j \in Indices(n.halfEdges) :
                  LET h == GetHalfEdge(n, j)
                      g == GetHalfEdge(mesh, oh + j)
                  IN  /\ g.Origin = h.Origin + ov
                      /\ g.Face = h.Face + of
                      /\ g.Next = h.Next + oh
                      /\ g.Prev = h.Prev + oh
                      /\ g.Twin = IF h.Twin # -1 THEN h.Twin + oh ELSE -1

\* C8 is met where a mesh with patches was merged into a mesh with faces,
\* half edges and patches of its own.
C8_Witness ==
    /\ call.op = "Merge"
    /\ GetNumberOfHalfEdges(old) > 0
    /\ GetNumberOfPatches(old) > 0
    /\ GetNumberOfHalfEdges(call.n) > 0
    /\ GetNumberOfPatches(call.n) > 0

\* C9: Translate(v) adds v to the point of every vertex and changes nothing
\* else: not the half edge of a vertex, no half edge, no face, no patch.
C9_TranslateMovesPoints ==
    call.op = "Translate" =>
        /\ GetNumberOfVertices(mesh) = GetNumberOfVertices(old)
        /\ \A v \in Indices(old.vertices) :
              /\ At(mesh.vertices, v).Point =
                     <<At(old.vertices, v).Point[1] + call.offset[1],
                       At(old.vertices, v).Point[2] + call.offset[2],
                       At(old.vertices, v).Point[3] + call.offset[3]>>
              /\ At(mesh.vertices, v).HalfEdge = At(old.vertices, v).HalfEdge
        /\ mesh.halfEdges = old.halfEdges
        /\ mesh.faces = old.faces
        /\ mesh.patches = old.patches

\* C9 is met where a mesh with vertices was moved by an offset that is not
\* zero on any axis.
C9_Witness ==
    /\ call.op = "Translate"
    /\ GetNumberOfVertices(old) > 0
    /\ \A a \in 1 .. 3 : call.offset[a] # 0
    /\ GetNumberOfHalfEdges(mesh) > 0

\* C10: GetComponents() returns a partition of the face indices: every
\* face is in exactly one component, once; and two faces are in the same
\* component iff a chain of faces sharing edges joins them.
C10_ComponentsPartition ==
    call.op = "GetComponents" =>
        /\ \A f \in Indices(mesh.faces) :
              Cardinality({<<c, a>> \in (1 .. Len(ret)) \X (1 .. GetNumberOfFaces(mesh)) :
                              a <= Len(ret[c]) /\ ret[c][a] = f}) = 1
        /\ \A c \in 1 .. Len(ret) :
              /\ ret[c] # <<>>
              /\ SetOf(ret[c]) \subseteq Indices(mesh.faces)
              /\ SetOf(ret[c]) = Connected(mesh, {ret[c][1]})

\* C10 is met where the mesh has two components, one of them of several
\* faces, after a Merge.
C10_Witness ==
    /\ call.op = "GetComponents"
    /\ Len(ret) = 2
    /\ \E c \in 1 .. Len(ret) : Len(ret[c]) > 2
    /\ GetNumberOfFaces(mesh) > Len(source.faces)

\* C11: ComputeFeatureEdges(theta) on a mesh with all flags clear sets
\* is_feature on h and on twin(h) for every half edge h with a twin whose
\* faces' normals are more than theta apart; afterwards a half edge with a
\* twin has the flag of its twin, and GetFeatureEdges() has both half edges
\* of every such pair.
C11_FeaturePairsMarked ==
    (/\ call.op = "ComputeFeatureEdges"
     /\ \A k \in Indices(old.halfEdges) : ~GetHalfEdge(old, k).IsFeature) =>
        \A k \in Indices(mesh.halfEdges) :
            LET h == GetHalfEdge(mesh, k)
            IN  ~IsBoundary(h) =>
                   /\ h.IsFeature = GetHalfEdge(mesh, h.Twin).IsFeature
                   /\ HalfEdgeFaceAngleExceeds(old, k, call.threshold) =>
                         /\ h.IsFeature
                         /\ Occurs(GetFeatureEdges(mesh), k)
                         /\ Occurs(GetFeatureEdges(mesh), h.Twin)

----------------------------------------------------------------------------
\* The octree's properties.

\* The leaves of an octree, by their codes.
Leaves(o) == {code \in DOMAIN o.nodes : o.nodes[code].isLeaf}

\* C12: after any sequence of Insert and Split, for every stored item with
\* index i and every leaf L, i is in L.items iff items[i].IntersectsAABB(
\* L.aabb): an item is in every leaf it intersects and in no other.  It
\* fails in the tree of the second root, where the bounds of a child's
\* octants, as rounded, reach beyond the child's own bounds.
C12_LeavesHoldIntersecting ==
    \A code \in Leaves(octree) :
        \A i \in Indices(octree.items) :
            Occurs(octree.nodes[code].items, i) <=>
                IntersectsAABB(At(octree.items, i), octree.nodes[code].aabb)

\* The indices a scan over all stored items gives for a query: those of
\* the items that intersect it under the method its type selects.
Matches(o, query) ==
    {i \in Indices(o.items) : Intersects(At(o.items, i), query)}

\* C13: for every octree reached by Insert and Split and every query q (an
\* AABB, a Ray or a Triangle), Query(q) returns exactly the indices of the
\* stored items that match q under the method q's type selects, the items
\* that reach beyond the root's box included, and no index twice.
C13_QueryFindsMatches ==
    call.op = "Query" =>
        /\ SetOf(ret) = Matches(octree, call.query)
        /\ Cardinality(SetOf(ret)) = Len(ret)

\* C14: Insert(item) returns ErrOctreeItemNotInserted iff the item does not
\* intersect the root's box, and then the items, the node table and every
\* leaf's list are as before; otherwise it returns nil, the number of items
\* grows by one and the item has the index that was the number of items.
C14_InsertFailsOutsideRoot ==
    call.op = "Insert" =>
        /\ err = "ErrOctreeItemNotInserted" <=>
               ~IntersectsAABB(call.item, old.nodes[RootCode].aabb)
        /\ err = "ErrOctreeItemNotInserted" => octree = old
        /\ err # "ErrOctreeItemNotInserted" =>
               /\ err = "nil"
               /\ octree.items = Append(old.items, call.item)

\* The ancestors of the node with a code: the nodes whose codes are the
\* code shifted right by three bits once or more.
Ancestors(o, code) ==
    {ShiftRight3(code, k) : k \in 1 .. CodeDigits} \cap DOMAIN o.nodes

\* The codes (code << 3) | 0 .. (code << 3) | 7 of 64 bits.
ChildCodes(code) == {BitOr(ShiftLeft3(code), k) : k \in 0 .. 7}

\* code << 3 loses a bit: the code has more than 61 bits.
Overflows(code) == ShiftRight3(ShiftLeft3(code), 1) # code

\* C15: for any location code passed to Split, if the node addressed is a
\* leaf at a depth below OctreeMaxDepth the split succeeds; otherwise (an
\* internal node, or a node at OctreeMaxDepth) Split returns
\* ErrOctreeCannotSplitNode and leaves the node table and the item lists as
\* they were; Split fails for no other reason, and Insert never makes a
\* Split that fails.
C15_SplitFailsOnlyOnNonLeafOrMaxDepth ==
    /\ call.op = "Split" =>
           LET splittable ==
                   /\ call.code \in DOMAIN old.nodes
                   /\ old.nodes[call.code].isLeaf
                   /\ Cardinality(Ancestors(old, call.code)) < OctreeMaxDepth
           IN  /\ err \in {"nil", "ErrOctreeCannotSplitNode"}
               /\ splittable =>
                      /\ err = "nil"
                      /\ ~octree.nodes[call.code].isLeaf
                      /\ ChildCodes(call.code) \subseteq Leaves(octree)
                      /\ Cardinality(ChildCodes(call.code)) = 8
               /\ ~splittable =>
                      /\ err = "ErrOctreeCannotSplitNode"
                      /\ octree = old
    /\ call.op = "Insert" => \A k \in 1 .. Len(ret) : ret[k] = "nil"

\* C16 as stated: after NewOctree and any sequence of Insert and Split the
\* root (code 1) is in the node table; a node with code c is internal iff
\* all eight codes (c<<3)|0 .. (c<<3)|7 are keys of the table; a leaf has
\* none of its eight child codes in the table; and every key c but the
\* root's has its parent c>>3 in the table as an internal node.
C16_InternalIffChildren ==
    /\ RootCode \in DOMAIN octree.nodes
    /\ \A c \in DOMAIN octree.nodes :
          /\ ~octree.nodes[c].isLeaf <=> ChildCodes(c) \subseteq DOMAIN octree.nodes
          /\ octree.nodes[c].isLeaf => ChildCodes(c) \cap DOMAIN octree.nodes = {}
          /\ c # RootCode =>
                /\ ShiftRight3(c, 1) \in DOMAIN octree.nodes
                /\ ~octree.nodes[ShiftRight3(c, 1)].isLeaf

\* C16, amended: the same, the two statements about child codes made for
\* the nodes whose codes have at most 61 bits, those above OctreeMaxDepth,
\* for which (c<<3)|k keeps all its bits; a node whose code has more bits
\* is a leaf.
C16_InternalIffChildrenAboveMaxDepth ==
    /\ RootCode \in DOMAIN octree.nodes
    /\ \A c \in DOMAIN octree.nodes :
          /\ Overflows(c) => octree.nodes[c].isLeaf
          /\ ~Overflows(c) =>
                /\ ~octree.nodes[c].isLeaf <=> ChildCodes(c) \subseteq DOMAIN octree.nodes
                /\ octree.nodes[c].isLeaf => ChildCodes(c) \cap DOMAIN octree.nodes = {}
          /\ c # RootCode =>
                /\ ShiftRight3(c, 1) \in DOMAIN octree.nodes
                /\ ~octree.nodes[ShiftRight3(c, 1)].isLeaf

\* C16 is met where a Split has made the leaves of depth OctreeMaxDepth,
\* the octree holding an item.
C16_Witness ==
    /\ call.op = "Split"
    /\ err = "nil"
    /\ octree.items # <<>>
    /\ \E c \in Leaves(octree) : Overflows(c)

\* The place of the highest digit of a code that is not zero, the digits
\* counted from 0: it is d iff 8^d <= code < 8^(d+1). It is -1 for code 0.
RECURSIVE HighDigitFrom(_, _)
HighDigitFrom(code, place) ==
    IF place < 0 THEN place
    ELSE IF code[place + 1] # 0 THEN place
    ELSE HighDigitFrom(code, place - 1)

HighDigit(code) == HighDigitFrom(code, CodeDigits - 1)

\* C17: for every node of the tree after any sequence of Insert and Split,
\* Depth() does not panic and gives the d in 0 .. OctreeMaxDepth with
\* code >> 3d = 1, which is the node's number of ancestors and has
\* 8^d <= code < 8^(d+1); and no node whose child codes (code<<3)|k were
\* computed, an internal node, has a code that code<<3 overflows.
C17_DepthIsNumberOfAncestors ==
    \A c \in DOMAIN octree.nodes :
        LET node == octree.nodes[c]
            d == Depth(node)
        IN  /\ node.code = c
            /\ d # InvalidCode
            /\ d \in 0 .. OctreeMaxDepth
            /\ ShiftRight3(c, d) = RootCode
            /\ d = Cardinality(Ancestors(octree, c))
            /\ HighDigit(c) = d
            /\ ~node.isLeaf => ~Overflows(c)

\* C17 is met where an item is held by a leaf of depth OctreeMaxDepth that
\* splits have made, and a Split of such a leaf has been refused.
C17_Witness ==
    /\ call.op = "Split"
    /\ err = "ErrOctreeCannotSplitNode"
    /\ call.code \in Leaves(octree)
    /\ Depth(octree.nodes[call.code]) = OctreeMaxDepth
    /\ octree.nodes[call.code].items # <<>>

-----------------------------------------------------------------------------
\* The writer's properties.

\* The lines a Write has written: those after the lines written before it.
Written == SubSeq(writer.writer, Len(old.writer) + 1, Len(writer.writer))

\* The lines of a kind among lines.
LinesOf(lines, kind) == SelectSeq(lines, LAMBDA line : line.kind = kind)

\* C18: a Write that returns writes one "v" line for each vertex set, in
\* their order, and then one "f" line with the vertices' numbers from 1
\* for every face set, each face once, in some order, also where no
\* patches and no face patches have been set or a face's patch is -1.
C18_WriteEmitsEveryFace ==
    (call.op = "Write" /\ err = "nil") =>
        /\ LinesOf(Written, "v") =
               [k \in 1 .. Len(old.vertices) |-> VertexLine(old.vertices[k])]
        /\ Len(LinesOf(Written, "f")) = Len(old.faces)
        /\ \A i \in Indices(old.faces) :
               Cardinality({k \in 1 .. Len(Written) :
                               Written[k] = FaceLine(At(old.faces, i))}) =
               Cardinality({j \in Indices(old.faces) :
                               At(old.faces, j) = At(old.faces, i)})
        /\ \A j, k \in 1 .. Len(Written) :
               (Written[j].kind = "v" /\ Written[k].kind = "f") => j < k

-----------------------------------------------------------------------------
\* Properties of Ray.IntersectsTriangle, under SpecRay.

IsRayCall == call.op \in {"Ray.IntersectsTriangle", "Triangle.IntersectsRay"}

\* Vectors of numbers that are not rounded.
ExactSubVector(v, w) ==
    <<ExactAdd(v[1], Negated(w[1])), ExactAdd(v[2], Negated(w[2])),
      ExactAdd(v[3], Negated(w[3]))>>

ExactDot(v, w) ==
    ExactAdd(ExactAdd(ExactMul(v[1], w[1]), ExactMul(v[2], w[2])),
             ExactMul(v[3], w[3]))

ExactCross(v, w) ==
    <<ExactAdd(ExactMul(v[2], w[3]), Negated(ExactMul(v[3], w[2]))),
      ExactAdd(ExactMul(v[3], w[1]), Negated(ExactMul(v[1], w[3]))),
      ExactAdd(ExactMul(v[1], w[2]), Negated(ExactMul(v[2], w[1])))>>

\* -1, 0 or 1 as det = (Q - P) . (dir x (R - P)) is negative, zero or
\* positive.
DetSign(r, t) ==
    LET e1 == ExactSubVector(Vector64(t.Q), Vector64(t.P))
        e2 == ExactSubVector(Vector64(t.R), Vector64(t.P))
    IN  Sign(ExactDot(e1, ExactCross(Vector64(r.Direction), e2)))

\* The sign of det * t, for the t at which origin + t * dir is in the
\* plane of the triangle: det * t = (R - P) . ((origin - P) x (Q - P)).
DetTimesTSign(r, t) ==
    LET e1 == ExactSubVector(Vector64(t.Q), Vector64(t.P))
        e2 == ExactSubVector(Vector64(t.R), Vector64(t.P))
        s == ExactSubVector(Vector64(r.Origin), Vector64(t.P))
    IN  Sign(ExactDot(e2, ExactCross(s, e1)))

\* The hit lies behind the origin of the ray.
HitBehindOrigin(r, t) == DetSign(r, t) * DetTimesTSign(r, t) < 0

\* C19: Ray.IntersectsTriangle is single-sided: it returns false when det
\* is not positive and false when the hit lies behind the origin, so at most
\* one of a triangle and its reversed winding is reported as hit; and
\* Triangle.IntersectsRay(r) equals r.IntersectsTriangle(t).
C19_SingleSided ==
    IsRayCall =>
        /\ DetSign(call.ray, call.triangle) <= 0 => ret = FALSE
        /\ HitBehindOrigin(call.ray, call.triangle) => ret = FALSE
        /\ ~(/\ RayIntersectsTriangle(call.ray, call.triangle)
             /\ RayIntersectsTriangle(call.ray, Reversed(call.triangle)))
        /\ TriangleIntersectsRay(call.triangle, call.ray)
              = RayIntersectsTriangle(call.ray, call.triangle)
        /\ ret = RayIntersectsTriangle(call.ray, call.triangle)

-----------------------------------------------------------------------------
\* Properties of flipFace, under Spec.

\* The sequence s is t read backwards from some place, cyclically.
IsReversedCycle(s, t) ==
    /\ Len(s) = Len(t)
    /\ \E d \in 1 .. Len(t) :
          \A j \in 1 .. Len(t) : s[j] = t[((d - j) % Len(t)) + 1]

\* What C20 says of the flip of face f of a mesh m.
FlipsFace(m, f) ==
    LET after == flipFace(m, f)
        cycle == GetFaceHalfEdges(m, f)
    IN  /\ \A j \in 1 .. Len(cycle) :
              LET h == GetHalfEdge(m, cycle[j])
                  flipped == GetHalfEdge(after, cycle[j])
              IN  /\ flipped.Origin = GetHalfEdge(m, h.Next).Origin
                  /\ flipped.Next = h.Prev
                  /\ flipped.Prev = h.Next
                  /\ flipped.Twin = h.Twin
                  /\ flipped.Face = h.Face
        /\ IsReversedCycle(GetFaceVertices(after, f), GetFaceVertices(m, f))
        /\ \A k \in Indices(m.halfEdges) :
              GetHalfEdge(m, k).Face # f => GetHalfEdge(after, k) = GetHalfEdge(m, k)
        /\ after.faces = m.faces /\ after.vertices = m.vertices

\* C20: flipFace(f) gives every half edge h in the cycle of face f the
\* origin of next(h), swaps next and prev and keeps twin and face, all read
\* before the flip; so GetFaceVertices(f) afterwards is the same vertices
\* in reversed cyclic order, and half edges of other faces are unchanged.
\* It is stated of every face of a mesh NewHalfEdgeMesh returned.
C20_FlipFaceReverses ==
    (err = "nil" /\ ncalls = 0) =>
        \A f \in Indices(mesh.faces) : FlipsFace(mesh, f)

\* C21: NewHalfEdgeMesh returns ErrNonManifold for every source that has
\* an undirected edge used by exactly one face edge; so every mesh it
\* returns has no boundary half edge: no twin is -1 and IsClosed() is true.
C21_BoundaryIsRefused ==
    call.op = "NewHalfEdgeMesh" =>
        /\ (\E e \in SourceEdges(source) : EdgeUse(source, e) = 1)
              => err = "ErrNonManifold"
        /\ err = "nil" =>
              /\ \A k \in Indices(mesh.halfEdges) : GetHalfEdge(mesh, k).Twin # -1
              /\ IsClosed(mesh)

\* NewHalfEdgeMesh has refused a source of several faces with a boundary
\* edge.
C21_Witness ==
    /\ call.op = "NewHalfEdgeMesh"
    /\ err = "ErrNonManifold"
    /\ Len(source.faces) > 1
    /\ \E e \in SourceEdges(source) : EdgeUse(source, e) = 1

\* C22: in the mesh Extract(F) returns, every half edge in the cycle of
\* new face i has face = i, an index of a face of that mesh; so the faces
\* GetFaceNeighbors returns there are indices of its faces.
C22_ExtractFaceIndices ==
    call.op = "Extract" =>
        \A i \in Indices(ret.faces) :
            /\ \A j \in 1 .. Len(GetFaceHalfEdges(ret, i)) :
                  GetHalfEdge(ret, GetFaceHalfEdges(ret, i)[j]).Face = i
            /\ \A j \in 1 .. Len(GetFaceNeighbors(ret, i)) :
                  GetFaceNeighbors(ret, i)[j] \in Indices(ret.faces)

\* C23: after m.Merge(n) every appended face that had patch -1 in n has
\* patch -1 in m, and every appended face with a patch p >= 0 has patch
\* p + the old patch count of m, which names the same patch as in n.
C23_MergeKeepsPatches ==
    call.op = "Merge" =>
        \A j \in Indices(call.n.faces) :
            LET p == At(call.n.faces, j).Patch
                g == At(mesh.faces, GetNumberOfFaces(old) + j)
            IN  /\ p = -1 => g.Patch = -1
                /\ p >= 0 =>
                      /\ g.Patch = p + GetNumberOfPatches(old)
                      /\ At(mesh.patches, g.Patch) = At(call.n.patches, p)

\* No entry of the sequence s occurs twice.
NoEntryTwice(s) == \A a, b \in 1 .. Len(s) : a # b => s[a] # s[b]

\* What C24 says of a successful Split(code) that led from the octree
\* before to the octree after.
SplitsNode(before, after, code) ==
    LET parent == before.nodes[code]
    IN  /\ DOMAIN after.nodes \ DOMAIN before.nodes = ChildCodes(code)
        /\ Cardinality(ChildCodes(code)) = 8
        /\ \A k \in 0 .. 7 :
              LET child == after.nodes[BitOr(ShiftLeft3(code), k)]
              IN  /\ child.isLeaf
                  /\ child.code = BitOr(ShiftLeft3(code), k)
                  /\ child.aabb = Octant(parent.aabb, k)
                  /\ child.items =
                        SelectSeq(parent.items,
                                  LAMBDA index :
                                      IntersectsAABB(At(before.items, index), child.aabb))
                  /\ NoEntryTwice(child.items)
        /\ ~after.nodes[code].isLeaf
        /\ after.nodes[code].items = <<>>
        /\ after.nodes[code].aabb = parent.aabb
        /\ after.nodes[code].code = parent.code
        /\ after.items = before.items
        /\ \A c \in DOMAIN before.nodes \ {code} : after.nodes[c] = before.nodes[c]

\* C24: a Split that succeeds makes exactly eight new leaves, child k with
\* the code (code << 3) | k and the box Octant(k) of the node's, holding the
\* parent's indices whose items intersect that box, in the parent's order
\* and none twice; the parent is then internal with an empty item list,
\* and the item array and every other node are as before.
C24_SplitMakesEightLeaves ==
    (call.op = "Split" /\ err = "nil") => SplitsNode(old, octree, call.code)

\* C25: after every Insert returns, every leaf of a depth below
\* OctreeMaxDepth holds at most OctreeMaxLeafItems indices; only the leaves
\* of the depth OctreeMaxDepth may hold more.
C25_LeavesWithinLimit ==
    call.op = "Insert" =>
        \A code \in DOMAIN octree.nodes :
            (octree.nodes[code].isLeaf /\ Depth(octree.nodes[code]) < OctreeMaxDepth)
                => Len(octree.nodes[code].items) <= OctreeMaxLeafItems

\* C26: during one Query no stored item is tested against the query more
\* than once, also when its index is in several leaves the query
\* intersects.
C26_EachItemTestedOnce ==
    call.op = "Query" => NoEntryTwice(QueryTests(octree, call.query))

\* C27: Orient leaves the IsFeature flag of every half edge as it was, so
\* GetFeatureEdges returns after Orient the half edges it returned
\* before.
C27_OrientKeepsFeatures ==
    call.op = "Orient" =>
        /\ \A k \in Indices(mesh.halfEdges) :
               GetHalfEdge(mesh, k).IsFeature = GetHalfEdge(old, k).IsFeature
        /\ GetFeatureEdges(mesh) = GetFeatureEdges(old)

\* Every face of m closes its loop: following next from the face's half
\* edge gives FaceDegree half edges, no two the same, the last with the
\* first as its next, and this is what GetFaceHalfEdges returns.
ClosesFaces(m) ==
    \A f \in Indices(m.faces) :
        LET hs == GetFaceHalfEdges(m, f)
        IN  /\ Len(hs) = FaceDegree
            /\ NoEntryTwice(hs)
            /\ hs[1] = GetFace(m, f).HalfEdge
            /\ \A i \in 1 .. Len(hs) - 1 : GetHalfEdge(m, hs[i]).Next = hs[i + 1]
            /\ GetHalfEdge(m, hs[Len(hs)]).Next = hs[1]

\* C28: in every mesh reached from NewHalfEdgeMesh by Orient, Merge and
\* Extract, the meshes Extract returns and those made of them included,
\* following next from a face's half edge comes back to it after as many
\* steps as the face has corners, so that GetFaceHalfEdges returns that
\* many distinct half edges; and Orient returns, having expanded no face
\* twice.
C28_FaceLoopsClose ==
    /\ err = "nil" => ClosesFaces(mesh)
    /\ call.op \in {"Extract", "e.Merge", "e.Extract"} => ClosesFaces(ret)
    /\ call.op \in {"Orient", "e.Orient"} =>
           /\ err = "nil"
           /\ call.op = "Orient" \/ ClosesFaces(ret)
           /\ NoEntryTwice(OrientExpanded(old))

\* What holds of the face loops and of the faces Orient expands, for the
\* calls that return.
FaceLoopsCloseWhereOrientReturns ==
    /\ err = "nil" => ClosesFaces(mesh)
    /\ call.op \in {"Extract", "e.Merge", "e.Extract"} => ClosesFaces(ret)
    /\ call.op \in {"Orient", "e.Orient"} /\ err = "nil" =>
           /\ call.op = "Orient" \/ ClosesFaces(ret)
           /\ NoEntryTwice(OrientExpanded(old))

\* The least and the greatest coordinate of a box along axis i, as numbers.
LowOf(a, i) == ExactAdd(a.Center[i], Negated(a.HalfSize[i]))

HighOf(a, i) == ExactAdd(a.Center[i], a.HalfSize[i])

\* The box b has the half size of a halved, and its centre is that of a
\* moved by the new half size along each axis, up iff the bit of the axis is
\* set in k.
IsOctantOf(b, a, k) ==
    \A i \in 1 .. 3 :
        /\ Equal64(b.HalfSize[i], ExactMul(a.HalfSize[i], Half64))
        /\ Equal64(b.Center[i],
                   ExactAdd(a.Center[i],
                            IF HasBit(k, 2 ^ (3 - i))
                            THEN ExactMul(a.HalfSize[i], Half64)
                            ELSE Negated(ExactMul(a.HalfSize[i], Half64))))

\* Two boxes share no inner point: along some axis one ends where the other
\* begins, or before.
InteriorsDisjoint(b, c) ==
    \E i \in 1 .. 3 : AtMost64(HighOf(b, i), LowOf(c, i)) \/ AtMost64(HighOf(c, i), LowOf(b, i))

\* The eight octants of a, each the product of its extents along the three
\* axes, fill a: along each axis the extent of the low octants begins where
\* that of a does, the extent of the high ones ends where that of a
\* does, and the two meet.
OctantsFill(a) ==
    \A i \in 1 .. 3 :
        LET low  == Octant(a, 0)
            high == Octant(a, 7)
        IN  /\ Equal64(LowOf(low, i), LowOf(a, i))
            /\ Equal64(HighOf(high, i), HighOf(a, i))
            /\ AtMost64(LowOf(high, i), HighOf(low, i))
            /\ AtMost64(LowOf(low, i), LowOf(high, i))
            /\ AtMost64(HighOf(low, i), HighOf(high, i))

\* C29: for every box (C, H) and k in 0 .. 7, Octant(k) has the half size
\* H/2 and the centre C moved by H/2 along x iff bit 2 of k is set, along y
\* iff bit 1 is, along z iff bit 0 is, and by -H/2 otherwise; the eight
\* octants have pairwise disjoint interiors and their union is the box; for
\* k outside 0 .. 7 Octant panics.
C29_OctantsPartition ==
    call.op = "Octant" =>
        IF call.octant \in 0 .. 7
        THEN /\ err = "nil"
             /\ IsOctantOf(ret, call.aabb, call.octant)
             /\ \A j \in 0 .. 7 :
                   j # call.octant => InteriorsDisjoint(ret, Octant(call.aabb, j))
             /\ OctantsFill(call.aabb)
        ELSE err = "panic"

\* An item has the method that Query's switch asks of it for a query of a
\* kind: every item has IntersectsAABB, a triangle alone has IntersectsRay,
\* a ray alone has IntersectsTriangle, and for no other kind of query is
\* there a case.
HasCapability(item, kind) ==
    CASE kind = "AABB" -> item.kind \in {"Vector", "AABB", "Triangle", "Ray"}
      [] kind = "Ray" -> item.kind = "Triangle"
      [] kind = "Triangle" -> item.kind = "Ray"
      [] OTHER -> FALSE

\* The method an item that has it answers a query with.
TestOf(item, query) ==
    CASE query.kind = "AABB" -> IntersectsAABB(item, AsAABB(query))
      [] query.kind = "Ray" -> TriangleIntersectsRay(AsTriangle(item), AsRay(query))
      [] query.kind = "Triangle" -> RayIntersectsTriangle(AsRay(item), AsTriangle(query))

\* The indices in the leaves whose boxes the query intersects.
IndicesMet(o, query) ==
    UNION {SetOf(o.nodes[code].items) :
              code \in {c \in DOMAIN o.nodes :
                           o.nodes[c].isLeaf /\ IntersectsAABB(query, o.nodes[c].aabb)}}

\* C30: Query tests the items by the type of the query, through
\* IntersectsAABB for a box, IntersectsRay for a ray and IntersectsTriangle
\* for a triangle; an item without the method asked for is never returned,
\* a query of another type, as a point, gets an empty result; Query does
\* not fail and leaves the tree as it was.
C30_QueryDispatches ==
    call.op = "Query" =>
        /\ err = "nil"
        /\ octree = old
        /\ call.query.kind \notin {"AABB", "Ray", "Triangle"} => ret = <<>>
        /\ \A index \in SetOf(ret) :
               /\ HasCapability(At(octree.items, index), call.query.kind)
               /\ TestOf(At(octree.items, index), call.query)
        /\ \A index \in IndicesMet(octree, call.query) :
               (/\ HasCapability(At(octree.items, index), call.query.kind)
                /\ TestOf(At(octree.items, index), call.query))
                   => index \in SetOf(ret)

\* C30 is met where a ray asked of a tree that holds a triangle it hits and,
\* in a leaf it passes, an item that has no IntersectsRay.
C30_Witness ==
    /\ call.op = "Query"
    /\ call.query.kind = "Ray"
    /\ ret # <<>>
    /\ \E index \in IndicesMet(octree, call.query) :
           ~HasCapability(At(octree.items, index), "Ray")

============================================================================
